---- MODULE Spec2Model ----
(***************************************************************************)
(* Verification model of the memorybench RAG provider core:                *)
(*   - ContainerLock          (src/providers/rag/pg.ts)                    *)
(*   - the extraction pool and the ingest orchestrator of RAGProvider      *)
(*                                                                         *)
(* Execution model.  The code runs on a single-threaded event loop.  A     *)
(* step of the model is one synchronous segment of an async function: the  *)
(* code between two awaits.  A continuation whose awaited promise has been *)
(* resolved sits in the job queue `microtasks` and runs in FIFO order.     *)
(* Calls from outside (a caller entering readLock, an ingest being         *)
(* started, an LLM answer arriving) can happen between any two segments.   *)
(***************************************************************************)
EXTENDS Integers, Sequences, FiniteSets, TLC

\* ------------------------------------------------------------------------
\* Bounds of the model
\* ------------------------------------------------------------------------
NProcs == 3          \* callers of the ContainerLock
NTags == 2           \* container tags
NSessions == 3       \* session ids
\* MAX_GLOBAL_EXTRACTIONS is 300 in the code (part_002:28); the model scales it down
\* so that the pool fills up.
MAX_GLOBAL_EXTRACTIONS == 1
\* EXTRACTION_CONCURRENCY is 10 (part_002:27) and EMBEDDING_BATCH_SIZE is 100
\* (part_002:24) in the code; scaled down so that an ingest has several batches.
EXTRACTION_CONCURRENCY == 2
EMBEDDING_BATCH_SIZE == 2
\* MAX_GRAPH_ENTITIES is 10 and MAX_GRAPH_RELATIONSHIPS is 20 in the code
\* (graph.ts:21-22); scaled down so that small graphs reach the caps.
MAX_GRAPH_ENTITIES == 3
MAX_GRAPH_RELATIONSHIPS == 2
\* addEntity compares the first 40 characters of a summary and cuts a
\* summary at 500 characters (graph.ts:41-42); scaled down.
SummaryPrefix == 2
SummaryMax == 4
\* The number of calls made on an EntityGraph that is used directly
MaxGraphCalls == 3
\* CHUNK_SIZE is 1600 and CHUNK_OVERLAP is 320 in the code (part_002:22-23);
\* scaled down so that short texts need several chunks.
CHUNK_SIZE == 5
CHUNK_OVERLAP == 2
\* The length of the longest text handed to chunkText
MaxTextLen == 7
\* The number of calls made on a PgStore that is used directly
MaxPgCalls == 3
\* The number of results a caller passes to rerankResults
NResults == 3
\* RERANK_OVERFETCH (part_002:26, 40 in the program) and the limit of a search
\* that gives none (part_002:373, 10 in the program), scaled down
RERANK_OVERFETCH == 2
DefaultLimit == 1

\* Program constants
maxRetries == 5      \* extractMemories' default (part_004:132)
lastEmbedAttempt == 2   \* `if (attempt >= 2) throw e` (part_002:305, 368)
rerankAttempts == 3     \* `attempt < 3` (part_003:221)
lastRerankAttempt == 2  \* `if (attempt < 2)` (part_003:230, 256)

Procs == 1..NProcs
Tags == 1..NTags
Sessions == 1..NSessions
NoProc == 0
\* The texts the extraction LLM may answer with.
Texts == {"a", "b"}
NoText == "-"
\* The ingest calls (each is made once) and the session lists they may be given.
Calls == {"A", "B"}
SessionLists == {<<>>, <<1>>, <<1, 1>>, <<2, 2, 1>>, <<1, 2, 1>>}
ShortLists == {<<>>, <<1>>, <<1, 1>>}

VARIABLES
  \* ---- ContainerLock (pg.ts 375-427) ----
  writerPromise,    \* [Tags -> BOOLEAN]: writerPromise.has(tag) (writerResolve has the same keys)
  promiseWaiters,   \* [Tags -> Seq(Procs)]: callers suspended at `await writerPromise.get(tag)`, in order
  readerCount,      \* [Tags -> Nat]: readerCount.get(tag) || 0
  readerDrain,      \* [Tags -> Procs \cup {NoProc}]: the writer awaiting readerDrain.get(tag).promise
  microtasks,       \* Seq(Procs): continuations whose promise is resolved, FIFO job queue
  lpc,              \* [Procs -> position of the caller]
  ltag,             \* [Procs -> Tags]: the tag of the caller's current call (1 while idle)
  ahead,            \* history: [Procs -> SUBSET Procs] writers active or suspended when the readLock was issued
  aheadWoken,       \* history: [Procs -> SUBSET Procs] those of `ahead` already woken (in microtasks) at issue
  \* ---- extraction pool of RAGProvider (part_002 82-102) and its doExtract tasks (194-202) ----
  activeGlobalExtractions,  \* Nat
  extractionQueue,          \* Seq(Sessions): the closures pushed by suspended acquireExtractionSlot calls
  xpc,              \* [Sessions -> position of the doExtract task of the session]
  xattempt,         \* [Sessions -> 0..maxRetries-1]: `attempt` of extractMemories (0 outside its loop)
  xval,             \* [Sessions -> Texts \cup {NoText}]: the text extractMemories returned
  \* ---- RAGProvider: ingest and search (part_002 166-433) ----
  extractionCache,     \* [Sessions -> Texts \cup {NoText}]: extractionCache.get(sessionId)
  extractionInFlight,  \* [Sessions -> BOOLEAN]: extractionInFlight.has(sessionId)
  cpc,              \* [Calls -> position of the ingest call]
  csessions,        \* [Calls -> Seq(Sessions)]: the `sessions` argument
  ctag,             \* [Calls -> Tags]: options.containerTag
  cbatch,           \* [Calls -> Nat]: `i` of the extraction loop (part_002:225)
  results,          \* [Calls -> Seq(Texts \cup {NoText})]: settled values of the current Promise.all
  extractions,      \* [Calls -> Seq(Texts)]: `extractions` (part_002:224)
  embedded,         \* [Calls -> Nat]: embeddedChunks.length, the `i` of the embedding loop
  eattempt,         \* [Calls -> 0..lastEmbedAttempt]: `attempt` of the embedding retry loop
  documentIds,      \* [Calls -> Seq(chunk ids)]: the result of the call
  searchEngine,     \* [Tags -> set of chunks]: the in-memory index of HybridSearchEngine
  graphs,           \* [Tags -> EntityGraph]: graphs.get(tag), EmptyGraph when the map has no entry
  snapshot,         \* [Tags -> snapshot record]: search.json / graph.json of the tag
  cdetached,        \* [Calls -> BOOLEAN]: the `graph` of the call (part_002:169) is no longer in `graphs`
  ingested,         \* history: [Tags -> chunk ids and entity names that ingests which returned put under the tag since its last clear]
  cleared,          \* history: [Tags -> BOOLEAN] cleared with no ingest in flight, no ingest started since
  spc,              \* position of the search call
  stag,             \* Tags: options.containerTag of the search call
  squery,           \* the `query` argument
  slimit,           \* options.limit, 0 when the caller gives none
  sattempt,         \* 0..lastEmbedAttempt: `attempt` of the query embedding loop
  overfetchLimit,   \* `overfetchLimit` (part_002:374)
  hybridResults,    \* `hybridResults` (part_002:377)
  sresult,          \* `combinedResults`, the list the last search returned
  shistory,         \* history of the search call: see SearchStart
  nStarted,         \* history: [Sessions -> Nat] doExtract calls started for the session
  nFailed,          \* history: [Sessions -> Nat] doExtract calls of the session that rejected
  overlapped,       \* history: set of pairs {c, d} of ingest calls that overlapped in time
  \* ---- an EntityGraph used directly (graph.ts 28-210) ----
  entityGraph,      \* the object: nodes, edgeSet, adjacency, nameIndex
  everAdded,        \* history: the (source, relation, target) triples passed to addRelationship
  graphCalls,       \* history: the number of calls made on entityGraph
  gcontext,         \* history: the last call when it was getContext or a snapshot
                    \* round trip: the store, the arguments and the result
  \* ---- a PgStore used directly (pg.ts 15-368) ----
  pg,               \* the database: the rows of rag_chunks, rag_entities, rag_relationships
  pgCalls,          \* history: the number of calls made on the PgStore
  pgout,            \* history: the last call made on the PgStore and what it returned
  \* ---- chunkText (part_002 31-65) ----
  chunked,          \* the call of chunkText: its argument and what came of it
  \* ---- rerankResults (part_003 191-266) ----
  rpc,              \* position of the rerankResults call
  rresults,         \* the `results` argument
  rtopK,            \* the `topK` argument
  rattempt,         \* `attempt` of the loop (part_003:221)
  rout,             \* the list the call returned
  rcalls,           \* history: generateText calls made by the current call
  rfailed           \* history: attempts of the current call that failed

lockVars == <<writerPromise, promiseWaiters, readerCount, readerDrain, microtasks,
              lpc, ltag, ahead, aheadWoken>>

poolVars == <<activeGlobalExtractions, extractionQueue, xpc, xattempt, xval>>

cacheVars == <<extractionCache, extractionInFlight, nStarted, nFailed>>
callVars == <<cpc, csessions, ctag, cbatch, results, extractions, embedded, eattempt,
              documentIds, overlapped>>
storeVars == <<searchEngine, graphs, snapshot, cdetached, ingested, cleared>>
searchVars == <<spc, stag, squery, slimit, sattempt, overfetchLimit, hybridResults, sresult,
                shistory>>
graphVars == <<entityGraph, everAdded, graphCalls, gcontext>>
pgVars == <<pg, pgCalls, pgout>>
chunkVars == <<chunked>>
rerankVars == <<rpc, rresults, rtopK, rattempt, rout, rcalls, rfailed>>

\* What a step of one component leaves alone
LockFrame ==
  UNCHANGED <<poolVars, cacheVars, callVars, storeVars, searchVars, graphVars, pgVars, chunkVars, rerankVars>>
PoolFrame ==
  UNCHANGED <<lockVars, cacheVars, callVars, storeVars, searchVars, graphVars, pgVars, chunkVars, rerankVars>>
GraphFrame ==
  UNCHANGED <<lockVars, poolVars, cacheVars, callVars, storeVars, searchVars, rerankVars,
              pgVars, chunkVars>>
RerankFrame ==
  UNCHANGED <<lockVars, poolVars, cacheVars, callVars, storeVars, searchVars, graphVars, pgVars, chunkVars>>

vars == <<writerPromise, promiseWaiters, readerCount, readerDrain, microtasks,
          lpc, ltag, ahead, aheadWoken,
          activeGlobalExtractions, extractionQueue, xpc, xattempt, xval,
          extractionCache, extractionInFlight, cpc, csessions, ctag, cbatch, results,
          extractions, embedded, eattempt, documentIds, searchEngine, graphs, snapshot,
          cdetached, ingested, cleared, squery, slimit, overfetchLimit, hybridResults, shistory,
          spc, stag, sattempt, sresult, nStarted, nFailed, overlapped,
          entityGraph, everAdded, graphCalls, gcontext, pg, pgCalls, pgout, chunked,
          rpc, rresults, rtopK, rattempt, rout, rcalls, rfailed>>

\* ------------------------------------------------------------------------
\* Helpers
\* ------------------------------------------------------------------------
SeqToSet(s) == {s[i] : i \in 1..Len(s)}
Min(a, b) == IF a < b THEN a ELSE b

\* Positions of a caller of the lock:
\*   idle      no call outstanding
\*   rAwait    inside readLock, suspended at pg.ts:383
\*   rDone     readLock's body finished (reader counted); the caller's await not yet resumed
\*   reading   the caller has resumed after `await readLock(tag)` and has not called readUnlock
\*   wAwait    inside writeLock, suspended at pg.ts:404
\*   wDrain    inside writeLock, suspended at pg.ts:417
\*   wDone     writeLock's body finished; the caller's await not yet resumed
\*   writing   the caller has resumed after `await writeLock(tag)` and has not called writeUnlock
LockPcs == {"idle", "rAwait", "rDone", "reading", "wAwait", "wDrain", "wDone", "writing"}

ReadHolders(t) == {p \in Procs : ltag[p] = t /\ lpc[p] \in {"rDone", "reading"}}
WriteHolders(t) == {p \in Procs : ltag[p] = t /\ lpc[p] \in {"wDone", "writing"}}
\* writers inside writeLock or holding: every writer that has not yet called writeUnlock
PendingWriters(t) == {p \in Procs : ltag[p] = t /\ lpc[p] \in {"wAwait", "wDrain", "wDone", "writing"}}
\* writers whose awaited promise was already resolved but whose continuation has not run yet
WokenWriters(t) == {p \in PendingWriters(t) : lpc[p] = "wAwait" /\ p \in SeqToSet(microtasks)}

\* ------------------------------------------------------------------------
\* ContainerLock
\* ------------------------------------------------------------------------
LockInit ==
  /\ writerPromise = [t \in Tags |-> FALSE]
  /\ promiseWaiters = [t \in Tags |-> <<>>]
  /\ readerCount = [t \in Tags |-> 0]
  /\ readerDrain = [t \in Tags |-> NoProc]
  /\ microtasks = <<>>
  /\ lpc = [p \in Procs |-> "idle"]
  /\ ltag = [p \in Procs |-> 1]
  /\ ahead = [p \in Procs |-> {}]
  /\ aheadWoken = [p \in Procs |-> {}]

\* Faulty variants of the loop of readLock, used to show that the properties below
\* tell the code from its neighbours: one that never looks at the writer promise,
\* and one that looks at the writer promise of every tag.
ReadLockLoop_NoWriterCheck(p, t, q) ==
  /\ readerCount' = [readerCount EXCEPT ![t] = @ + 1]
  /\ lpc' = [lpc EXCEPT ![p] = "rDone"]
  /\ microtasks' = Append(q, p)
  /\ UNCHANGED promiseWaiters

ReadLockLoop_AnyTag(p, t, q) ==
  IF \E u \in Tags : writerPromise[u]
  THEN /\ promiseWaiters' = [promiseWaiters EXCEPT ![t] = Append(@, p)]
       /\ lpc' = [lpc EXCEPT ![p] = "rAwait"]
       /\ microtasks' = q
       /\ UNCHANGED readerCount
  ELSE /\ readerCount' = [readerCount EXCEPT ![t] = @ + 1]
       /\ lpc' = [lpc EXCEPT ![p] = "rDone"]
       /\ microtasks' = Append(q, p)
       /\ UNCHANGED promiseWaiters

\* The loop of readLock (pg.ts:382-385), entered by caller p on tag t with the
\* job queue q (the queue without p's own continuation when p is resumed).
ReadLockLoop(p, t, q) ==
  IF writerPromise[t]
  THEN /\ promiseWaiters' = [promiseWaiters EXCEPT ![t] = Append(@, p)]
       /\ lpc' = [lpc EXCEPT ![p] = "rAwait"]
       /\ microtasks' = q
       /\ UNCHANGED readerCount
  ELSE /\ readerCount' = [readerCount EXCEPT ![t] = @ + 1]
       /\ lpc' = [lpc EXCEPT ![p] = "rDone"]
       /\ microtasks' = Append(q, p)
       /\ UNCHANGED promiseWaiters

\* async readLock(tag), up to its first await or its end (pg.ts:381-386)
readLock(p, t) ==
  /\ lpc[p] = "idle"
  /\ ltag' = [ltag EXCEPT ![p] = t]
  /\ ahead' = [ahead EXCEPT ![p] = PendingWriters(t)]
  /\ aheadWoken' = [aheadWoken EXCEPT ![p] = WokenWriters(t)]
  /\ ReadLockLoop(p, t, microtasks)
  /\ UNCHANGED <<writerPromise, readerDrain>>
  /\ LockFrame

\* readUnlock(tag) (pg.ts:388-400)
readUnlock(p) ==
  LET t == ltag[p]
      count == (IF readerCount[t] = 0 THEN 1 ELSE readerCount[t]) - 1
  IN /\ lpc[p] = "reading"
     /\ lpc' = [lpc EXCEPT ![p] = "idle"]
     /\ ltag' = [ltag EXCEPT ![p] = 1]
     /\ ahead' = [ahead EXCEPT ![p] = {}]
     /\ aheadWoken' = [aheadWoken EXCEPT ![p] = {}]
     /\ IF count <= 0
        THEN /\ readerCount' = [readerCount EXCEPT ![t] = 0]
             /\ IF readerDrain[t] # NoProc
                THEN /\ readerDrain' = [readerDrain EXCEPT ![t] = NoProc]
                     /\ microtasks' = Append(microtasks, readerDrain[t])
                ELSE UNCHANGED <<readerDrain, microtasks>>
        ELSE /\ readerCount' = [readerCount EXCEPT ![t] = count]
             /\ UNCHANGED <<readerDrain, microtasks>>
     /\ UNCHANGED <<writerPromise, promiseWaiters>>
     /\ LockFrame

\* Faulty variant of writeLock: it does not wait for the readers to drain.
WriteLockLoop_NoDrain(p, t, q) ==
  IF writerPromise[t]
  THEN /\ promiseWaiters' = [promiseWaiters EXCEPT ![t] = Append(@, p)]
       /\ lpc' = [lpc EXCEPT ![p] = "wAwait"]
       /\ microtasks' = q
       /\ UNCHANGED <<writerPromise, readerDrain>>
  ELSE /\ writerPromise' = [writerPromise EXCEPT ![t] = TRUE]
       /\ lpc' = [lpc EXCEPT ![p] = "wDone"]
       /\ microtasks' = Append(q, p)
       /\ UNCHANGED <<promiseWaiters, readerDrain>>

\* The loop of writeLock and what follows it (pg.ts:403-418)
WriteLockLoop(p, t, q) ==
  IF writerPromise[t]
  THEN /\ promiseWaiters' = [promiseWaiters EXCEPT ![t] = Append(@, p)]
       /\ lpc' = [lpc EXCEPT ![p] = "wAwait"]
       /\ microtasks' = q
       /\ UNCHANGED <<writerPromise, readerDrain>>
  ELSE /\ writerPromise' = [writerPromise EXCEPT ![t] = TRUE]
       /\ UNCHANGED promiseWaiters
       /\ IF readerCount[t] > 0
          THEN /\ readerDrain' = [readerDrain EXCEPT ![t] = p]
               /\ lpc' = [lpc EXCEPT ![p] = "wDrain"]
               /\ microtasks' = q
          ELSE /\ lpc' = [lpc EXCEPT ![p] = "wDone"]
               /\ microtasks' = Append(q, p)
               /\ UNCHANGED readerDrain

\* async writeLock(tag), up to its first await or its end (pg.ts:402-419)
writeLock(p, t) ==
  /\ lpc[p] = "idle"
  /\ ltag' = [ltag EXCEPT ![p] = t]
  /\ WriteLockLoop(p, t, microtasks)
  /\ UNCHANGED <<readerCount, ahead, aheadWoken>>
  /\ LockFrame

\* Faulty variant of writeUnlock: it deletes the promise without resolving it.
writeUnlock_NoResolve(p) ==
  LET t == ltag[p]
  IN /\ lpc[p] = "writing"
     /\ lpc' = [lpc EXCEPT ![p] = "idle"]
     /\ writerPromise' = [writerPromise EXCEPT ![t] = FALSE]
     /\ ltag' = [ltag EXCEPT ![p] = 1]
     /\ ahead' = [q \in Procs |-> ahead[q] \ {p}]
     /\ aheadWoken' = [q \in Procs |-> aheadWoken[q] \ {p}]
     /\ UNCHANGED <<promiseWaiters, microtasks, readerCount, readerDrain>>
     /\ LockFrame

\* writeUnlock(tag) (pg.ts:421-426): resolving the promise queues its waiters in order
writeUnlock(p) ==
  LET t == ltag[p]
  IN /\ lpc[p] = "writing"
     /\ lpc' = [lpc EXCEPT ![p] = "idle"]
     /\ writerPromise' = [writerPromise EXCEPT ![t] = FALSE]
     /\ microtasks' = microtasks \o promiseWaiters[t]
     /\ promiseWaiters' = [promiseWaiters EXCEPT ![t] = <<>>]
     /\ ltag' = [ltag EXCEPT ![p] = 1]
     /\ ahead' = [q \in Procs |-> ahead[q] \ {p}]
     /\ aheadWoken' = [q \in Procs |-> aheadWoken[q] \ {p}]
     /\ UNCHANGED <<readerCount, readerDrain>>
     /\ LockFrame

\* The event loop runs the first queued continuation.
RunMicrotask ==
  /\ microtasks # <<>>
  /\ LockFrame
  /\ LET p == Head(microtasks)
         q == Tail(microtasks)
         t == ltag[p]
     IN \/ /\ lpc[p] = "rAwait"                     \* back in the loop at pg.ts:382
           /\ ReadLockLoop(p, t, q)
           /\ UNCHANGED <<writerPromise, readerDrain, ltag, ahead, aheadWoken>>
        \/ /\ lpc[p] = "wAwait"                     \* back in the loop at pg.ts:403
           /\ WriteLockLoop(p, t, q)
           /\ UNCHANGED <<readerCount, ltag, ahead, aheadWoken>>
        \/ /\ lpc[p] = "wDrain"                     \* after pg.ts:417: writeLock ends
           /\ lpc' = [lpc EXCEPT ![p] = "wDone"]
           /\ microtasks' = Append(q, p)
           /\ UNCHANGED <<writerPromise, promiseWaiters, readerCount, readerDrain,
                          ltag, ahead, aheadWoken>>
        \/ /\ lpc[p] \in {"rDone", "wDone"}         \* the caller's `await lock.xLock(tag)` resumes
           /\ lpc' = [lpc EXCEPT ![p] = IF lpc[p] = "rDone" THEN "reading" ELSE "writing"]
           /\ microtasks' = q
           /\ UNCHANGED <<writerPromise, promiseWaiters, readerCount, readerDrain,
                          ltag, ahead, aheadWoken>>

LockNext ==
  \/ \E p \in Procs, t \in Tags : readLock(p, t)
  \/ \E p \in Procs, t \in Tags : writeLock(p, t)
  \/ \E p \in Procs : readUnlock(p)
  \/ \E p \in Procs : writeUnlock(p)
  \/ RunMicrotask


LockTypeOK ==
  /\ writerPromise \in [Tags -> BOOLEAN]
  /\ readerCount \in [Tags -> 0..NProcs]
  /\ readerDrain \in [Tags -> Procs \cup {NoProc}]
  /\ lpc \in [Procs -> LockPcs]
  /\ ltag \in [Procs -> Tags]

\* ------------------------------------------------------------------------
\* Extraction pool and doExtract (part_002 85-102, 194-202; part_004 129-159)
\* ------------------------------------------------------------------------
\* Positions of the doExtract task of a session:
\*   none      no doExtract of the session has been called (or the last one is forgotten)
\*   queued    suspended in acquireExtractionSlot, closure in extractionQueue (part_002:90-95)
\*   granted   the slot is counted for it; doExtract not yet resumed after part_002:195
\*   calling   inside extractMemories, generateText in flight (part_004:141)
\*   backoff   inside extractMemories, waiting before the next attempt (part_004:155)
\*   returned  extractMemories returned a text; doExtract's finally has not run yet
\*   threw     extractMemories threw after the last attempt; the finally has not run yet
\*   resolved  doExtract's promise is resolved with xval
\*   rejected  doExtract's promise is rejected
TaskPcs == {"none", "queued", "granted", "calling", "backoff", "returned", "threw",
            "resolved", "rejected"}
HoldsSlot(s) == xpc[s] \in {"granted", "calling", "backoff", "returned", "threw"}
TaskLive(s) == xpc[s] = "queued" \/ HoldsSlot(s)

PoolInit ==
  /\ activeGlobalExtractions = 0
  /\ extractionQueue = <<>>
  /\ xpc = [s \in Sessions |-> "none"]
  /\ xattempt = [s \in Sessions |-> 0]
  /\ xval = [s \in Sessions |-> NoText]

\* The pool as a value, so that one synchronous segment can use it several times.
PoolNow == [active |-> activeGlobalExtractions, queue |-> extractionQueue, pc |-> xpc]

\* Faulty variant of acquireExtractionSlot: the comparison is off by one.
acquireExtractionSlot_OffByOne(st, s) ==
  IF st.active <= MAX_GLOBAL_EXTRACTIONS
  THEN [st EXCEPT !.active = @ + 1, !.pc[s] = "granted"]
  ELSE [st EXCEPT !.queue = Append(@, s), !.pc[s] = "queued"]

\* acquireExtractionSlot (part_002:85-96), called for the doExtract of session s
acquireExtractionSlot(st, s) ==
  IF st.active < MAX_GLOBAL_EXTRACTIONS
  THEN [st EXCEPT !.active = @ + 1, !.pc[s] = "granted"]
  ELSE [st EXCEPT !.queue = Append(@, s), !.pc[s] = "queued"]

\* Faulty variants of releaseExtractionSlot: one wakes the caller queued last,
\* one wakes nobody.
releaseExtractionSlot_Lifo(st) ==
  LET d == [st EXCEPT !.active = @ - 1]
      n == Len(d.queue)
  IN IF d.queue = <<>>
     THEN d
     ELSE [d EXCEPT !.queue = SubSeq(@, 1, n - 1), !.active = @ + 1,
                    !.pc[d.queue[n]] = "granted"]

releaseExtractionSlot_NoWake(st) == [st EXCEPT !.active = @ - 1]

\* releaseExtractionSlot (part_002:98-102): the shifted closure counts the slot
\* for the waiter and resolves its promise in the same synchronous segment
releaseExtractionSlot(st) ==
  LET d == [st EXCEPT !.active = @ - 1]
  IN IF d.queue = <<>>
     THEN d
     ELSE [d EXCEPT !.queue = Tail(@), !.active = @ + 1, !.pc[Head(d.queue)] = "granted"]

SetPool(st) ==
  /\ activeGlobalExtractions' = st.active
  /\ extractionQueue' = st.queue
  /\ xpc' = st.pc

\* doExtract() is called (part_002:203) and runs up to `await acquireExtractionSlot()`
StartDoExtract(s) ==
  /\ xpc[s] = "none"
  /\ SetPool(acquireExtractionSlot(PoolNow, s))
  /\ UNCHANGED <<xattempt, xval>>
  /\ PoolFrame

\* doExtract resumes after part_002:195 and calls extractMemories, which sends attempt 0
DoExtractResume(s) ==
  /\ xpc[s] = "granted"
  /\ xpc' = [xpc EXCEPT ![s] = "calling"]
  /\ xattempt' = [xattempt EXCEPT ![s] = 0]
  /\ UNCHANGED <<activeGlobalExtractions, extractionQueue, xval>>
  /\ PoolFrame

\* generateText answers: extractMemories returns text.trim() (part_004:141-145)
LLMSuccess(s, v) ==
  /\ xpc[s] = "calling"
  /\ xpc' = [xpc EXCEPT ![s] = "returned"]
  /\ xval' = [xval EXCEPT ![s] = v]
  /\ xattempt' = [xattempt EXCEPT ![s] = 0]
  /\ UNCHANGED <<activeGlobalExtractions, extractionQueue>>
  /\ PoolFrame

\* Faulty variant of LLMFailure: the error is rethrown one attempt later.
LLMFailure_OneMore(s) ==
  /\ xpc[s] = "calling"
  /\ xpc' = [xpc EXCEPT ![s] = IF xattempt[s] = maxRetries THEN "threw" ELSE "backoff"]
  /\ xattempt' = [xattempt EXCEPT ![s] = IF xattempt[s] = maxRetries THEN 0 ELSE @]
  /\ UNCHANGED <<activeGlobalExtractions, extractionQueue, xval>>
  /\ PoolFrame

\* generateText throws (part_004:146-156): rethrow on the last attempt, else back off
LLMFailure(s) ==
  /\ xpc[s] = "calling"
  /\ xpc' = [xpc EXCEPT ![s] = IF xattempt[s] = maxRetries - 1 THEN "threw" ELSE "backoff"]
  /\ xattempt' = [xattempt EXCEPT ![s] = IF xattempt[s] = maxRetries - 1 THEN 0 ELSE @]
  /\ UNCHANGED <<activeGlobalExtractions, extractionQueue, xval>>
  /\ PoolFrame

\* the back-off timer fires and the loop sends the next attempt (part_004:136-141)
RetryTimer(s) ==
  /\ xpc[s] = "backoff"
  /\ xpc' = [xpc EXCEPT ![s] = "calling"]
  /\ xattempt' = [xattempt EXCEPT ![s] = @ + 1]
  /\ UNCHANGED <<activeGlobalExtractions, extractionQueue, xval>>
  /\ PoolFrame

\* Faulty variant of doExtract: the slot is released after a return only, not
\* in a finally block.
DoExtractSettle_NoFinally(s) ==
  IF xpc[s] = "returned"
  THEN [releaseExtractionSlot(PoolNow) EXCEPT !.pc[s] = "resolved"]
  ELSE [PoolNow EXCEPT !.pc[s] = "rejected"]

\* The pool after doExtract's finally block (part_002:199-201): the slot is released
\* and doExtract's promise settles
DoExtractSettle(s) ==
  LET st == releaseExtractionSlot(PoolNow)
  IN [st EXCEPT !.pc[s] = IF xpc[s] = "returned" THEN "resolved" ELSE "rejected"]

\* doExtract resumes after `await extractMemories(...)` and runs its finally block
DoExtractFinally(s) ==
  /\ xpc[s] \in {"returned", "threw"}
  /\ SetPool(DoExtractSettle(s))
  /\ UNCHANGED <<xattempt, xval>>
  /\ PoolFrame

\* The settled promise of a finished doExtract is dropped; a later doExtract of
\* the session starts from scratch.
ForgetDoExtract(s) ==
  /\ xpc[s] \in {"resolved", "rejected"}
  /\ xpc' = [xpc EXCEPT ![s] = "none"]
  /\ xval' = [xval EXCEPT ![s] = NoText]
  /\ UNCHANGED <<activeGlobalExtractions, extractionQueue, xattempt>>
  /\ PoolFrame

PoolNext ==
  \/ \E s \in Sessions : StartDoExtract(s)
  \/ \E s \in Sessions : DoExtractResume(s)
  \/ \E s \in Sessions, v \in Texts : LLMSuccess(s, v)
  \/ \E s \in Sessions : LLMFailure(s)
  \/ \E s \in Sessions : RetryTimer(s)
  \/ \E s \in Sessions : DoExtractFinally(s)
  \/ \E s \in Sessions : ForgetDoExtract(s)


PoolTypeOK ==
  /\ activeGlobalExtractions \in Int
  /\ xpc \in [Sessions -> TaskPcs]
  /\ xattempt \in [Sessions -> 0..(maxRetries - 1)]
  /\ xval \in [Sessions -> Texts \cup {NoText}]


\* ------------------------------------------------------------------------
\* Strings
\* ------------------------------------------------------------------------
\* A string is a sequence of tokens.  A token is a word (a run of word
\* characters that the model never cuts), a blank " " or a pipe "|".
\* Summaries are written with the one-character words "x" and "y", so that
\* substring cuts them exactly.
Blank == " "
Pipe == "|"
Newline == "\n"
Dot == "."

\* String.length, from the length of each token
StrLength(str) ==
  LET TokenLength(tok) ==
        CASE tok \in {Blank, Pipe, Newline, Dot, "x", "y", "a", "b", "c", "d"} -> 1
          [] tok \in {"Al", "al", "me"} -> 2
          [] tok \in {"Bob", "bob"} -> 3
          [] tok \in {"Acme", "acme", "tell"} -> 4
          [] tok \in {"Alice", "alice", "about", "hello"} -> 5
          [] tok \in {"person", "Person"} -> 6
          [] tok = "works_at" -> 8
          [] tok = "married_to" -> 10
          [] OTHER -> 3
      RECURSIVE Sum(_)
      Sum(s) == IF s = <<>> THEN 0 ELSE TokenLength(Head(s)) + Sum(Tail(s))
  IN Sum(str)

\* String.prototype.toLowerCase
toLowerCase(str) ==
  LET LowerToken(tok) ==
        CASE tok = "Alice" -> "alice"
          [] tok = "Bob" -> "bob"
          [] tok = "Acme" -> "acme"
          [] tok = "Al" -> "al"
          [] tok = "Person" -> "person"
          [] OTHER -> tok
  IN [i \in DOMAIN str |-> LowerToken(str[i])]

\* String.prototype.trim
trim(str) ==
  LET RECURSIVE trimStart(_)
      trimStart(s) ==
        IF s # <<>> /\ Head(s) \in {Blank, Newline} THEN trimStart(Tail(s)) ELSE s
      RECURSIVE trimEnd(_)
      trimEnd(s) ==
        IF s # <<>> /\ s[Len(s)] \in {Blank, Newline}
        THEN trimEnd(SubSeq(s, 1, Len(s) - 1)) ELSE s
  IN trimEnd(trimStart(str))

\* str.split(/\s+/) for a trimmed, non-empty str: the runs between blanks
split(str) ==
  LET RECURSIVE splitFrom(_, _)
      splitFrom(i, cur) ==
        IF i > Len(str) THEN (IF cur = <<>> THEN <<>> ELSE <<cur>>)
        ELSE IF str[i] = Blank
             THEN (IF cur = <<>> THEN <<>> ELSE <<cur>>) \o splitFrom(i + 1, <<>>)
             ELSE splitFrom(i + 1, Append(cur, str[i]))
  IN splitFrom(1, <<>>)

\* str.substring(0, n): the longest prefix of at most n characters
RECURSIVE substring(_, _)
substring(str, n) ==
  IF str = <<>> \/ StrLength(<<Head(str)>>) > n THEN <<>>
  ELSE <<Head(str)>> \o substring(Tail(str), n - StrLength(<<Head(str)>>))

\* str.includes(sub)
includes(str, sub) ==
  \E i \in 0..Len(str) : i + Len(sub) <= Len(str) /\ SubSeq(str, i + 1, i + Len(sub)) = sub

\* new RegExp(`\\b${escapeRegex(key)}\\b`).test(str) (graph.ts:86-87): the key
\* occurs in str between two word boundaries.  \b matches between positions
\* i and i+1 when exactly one of the two tokens is made of word characters.
wordMatch(key, str) ==
  LET IsWord(tok) == tok \notin {Blank, Pipe}
      WordBoundary(i) ==
        (i >= 1 /\ IsWord(str[i])) # (i < Len(str) /\ IsWord(str[i + 1]))
  IN \E i \in 0..Len(str) :
       /\ i + Len(key) <= Len(str)
       /\ SubSeq(str, i + 1, i + Len(key)) = key
       /\ WordBoundary(i)
       /\ WordBoundary(i + Len(key))

\* ------------------------------------------------------------------------
\* Map and Set of JavaScript: they keep their keys in insertion order
\* ------------------------------------------------------------------------
\* A Map is a sequence of entries [k, v]; a Set is a sequence without repeats.
MapHas(m, k) == \E i \in DOMAIN m : m[i].k = k
MapGet(m, k) == m[CHOOSE i \in DOMAIN m : m[i].k = k].v
MapSet(m, k, v) ==
  IF MapHas(m, k)
  THEN [m EXCEPT ![CHOOSE i \in DOMAIN m : m[i].k = k].v = v]
  ELSE Append(m, [k |-> k, v |-> v])
SetHas(s, x) == \E i \in DOMAIN s : s[i] = x
SetAdd(s, x) == IF SetHas(s, x) THEN s ELSE Append(s, x)

\* ------------------------------------------------------------------------
\* EntityGraph (src/providers/rag/graph.ts)
\* ------------------------------------------------------------------------
\* new EntityGraph() (graph.ts:29-32)
EmptyGraph == [nodes |-> <<>>, edgeSet |-> {}, adjacency |-> <<>>, nameIndex |-> <<>>]

\* Index the full name and its parts longer than 2 (graph.ts:53-64, 187-197)
indexNode(nameIndex, canonical) ==
  LET indexName(idx, key) ==
        MapSet(idx, key, SetAdd(IF MapHas(idx, key) THEN MapGet(idx, key) ELSE <<>>,
                                canonical))
      parts == split(canonical)
      RECURSIVE indexParts(_, _)
      indexParts(idx, i) ==
        IF i > Len(parts) THEN idx
        ELSE indexParts(IF StrLength(parts[i]) > 2
                        THEN indexName(idx, toLowerCase(parts[i]))
                        ELSE idx,
                        i + 1)
  IN indexParts(indexName(nameIndex, toLowerCase(canonical)), 1)

\* addEntity (graph.ts:34-65)
addEntity(g, name, type, summary, sessionId) ==
  LET canonical == trim(name)
  IN IF canonical = <<>> THEN g
     ELSE LET merged ==
                LET existing == MapGet(g.nodes, canonical)
                IN [existing EXCEPT
                      !.sessionIds = SetAdd(@, sessionId),
                      !.summary =
                        IF summary # <<>>
                           /\ ~includes(@, substring(summary, SummaryPrefix))
                        THEN substring(@ \o <<Blank>> \o summary, SummaryMax)
                        ELSE @]
              created == [name |-> canonical, type |-> toLowerCase(type),
                          summary |-> summary, sessionIds |-> <<sessionId>>]
          IN [g EXCEPT
                !.nodes = MapSet(@, canonical,
                                 IF MapHas(g.nodes, canonical) THEN merged ELSE created),
                !.nameIndex = indexNode(@, canonical)]

\* The key of an edge (graph.ts:68, 119, 168)
edgeKey(edge) == edge.source \o <<Pipe>> \o edge.relation \o <<Pipe>> \o edge.target

\* Faulty variant of addRelationship: the edge is listed under its source only.
addRelationship_SourceOnly(g, edge) ==
  LET pushAdjacent(adj, name) ==
        MapSet(adj, name, Append(IF MapHas(adj, name) THEN MapGet(adj, name) ELSE <<>>,
                                 edge))
  IN IF edgeKey(edge) \in g.edgeSet THEN g
     ELSE [g EXCEPT !.edgeSet = @ \cup {edgeKey(edge)},
                    !.adjacency = pushAdjacent(@, edge.source)]

\* addRelationship (graph.ts:67-77)
addRelationship(g, edge) ==
  LET pushAdjacent(adj, name) ==
        MapSet(adj, name, Append(IF MapHas(adj, name) THEN MapGet(adj, name) ELSE <<>>,
                                 edge))
  IN IF edgeKey(edge) \in g.edgeSet THEN g
     ELSE [g EXCEPT !.edgeSet = @ \cup {edgeKey(edge)},
                    !.adjacency = pushAdjacent(pushAdjacent(@, edge.source), edge.target)]

\* get nodeCount / get edgeCount (graph.ts:151-157)
nodeCount(g) == Len(g.nodes)
edgeCount(g) == Cardinality(g.edgeSet)

\* findEntitiesInQuery (graph.ts:79-93)
findEntitiesInQuery(g, query) ==
  LET queryLower == toLowerCase(query)
      RECURSIVE addAll(_, _, _)
      addAll(matched, canonicals, i) ==
        IF i > Len(canonicals) THEN matched
        ELSE addAll(SetAdd(matched, canonicals[i]), canonicals, i + 1)
      RECURSIVE matchFrom(_, _)
      matchFrom(i, matched) ==
        IF i > Len(g.nameIndex) THEN matched
        ELSE matchFrom(i + 1,
                       IF StrLength(g.nameIndex[i].k) > 2
                          /\ wordMatch(g.nameIndex[i].k, queryLower)
                       THEN addAll(matched, g.nameIndex[i].v, 1)
                       ELSE matched)
  IN matchFrom(1, <<>>)

\* getContext without the test `resultEntities.length < MAX_GRAPH_ENTITIES`
getContext_Uncapped(g, entityNames, maxHops) ==
  LET pushEntity(ents, name) ==
        IF MapHas(g.nodes, name)
        THEN LET node == MapGet(g.nodes, name)
             IN Append(ents, [name |-> node.name, type |-> node.type,
                              summary |-> node.summary])
        ELSE ents
      \* the seed loop (graph.ts:102-109)
      RECURSIVE visitSeeds(_, _)
      visitSeeds(st, i) ==
        IF i > Len(entityNames) THEN st
        ELSE visitSeeds(IF entityNames[i] \in st.visitedNodes THEN st
                        ELSE [st EXCEPT !.visitedNodes = @ \cup {entityNames[i]},
                                        !.resultEntities = pushEntity(@, entityNames[i])],
                        i + 1)
      \* one edge of the adjacency list of `name` (graph.ts:118-142)
      visitEdge(st, name, edge) ==
        IF edgeKey(edge) \in st.seenEdges THEN st
        ELSE LET other == IF edge.source = name THEN edge.target ELSE edge.source
                 st1 == [st EXCEPT
                           !.seenEdges = @ \cup {edgeKey(edge)},
                           !.resultRels =
                              IF Len(@) < MAX_GRAPH_RELATIONSHIPS
                              THEN Append(@, [source |-> edge.source,
                                              target |-> edge.target,
                                              relation |-> edge.relation,
                                              date |-> edge.date])
                              ELSE @]
             IN IF other \in st1.visitedNodes THEN st1
                ELSE [st1 EXCEPT !.visitedNodes = @ \cup {other},
                                 !.nextFrontier = Append(@, other),
                                 !.resultEntities = pushEntity(@, other)]
      RECURSIVE visitEdges(_, _, _, _)
      visitEdges(st, name, edges, i) ==
        IF i > Len(edges) THEN st
        ELSE visitEdges(visitEdge(st, name, edges[i]), name, edges, i + 1)
      \* the loop over the frontier (graph.ts:116-143)
      RECURSIVE visitFrontier(_, _, _)
      visitFrontier(st, frontier, i) ==
        IF i > Len(frontier) THEN st
        ELSE visitFrontier(visitEdges(st, frontier[i],
                                      IF MapHas(g.adjacency, frontier[i])
                                      THEN MapGet(g.adjacency, frontier[i]) ELSE <<>>, 1),
                           frontier, i + 1)
      \* the loop over the hops (graph.ts:113-146)
      RECURSIVE visitHops(_, _, _)
      visitHops(st, frontier, hop) ==
        IF hop < maxHops /\ Len(frontier) > 0
        THEN LET st1 == visitFrontier([st EXCEPT !.nextFrontier = <<>>], frontier, 1)
             IN visitHops(st1, st1.nextFrontier, hop + 1)
        ELSE st
      st0 == [visitedNodes |-> {}, resultEntities |-> <<>>, resultRels |-> <<>>,
              seenEdges |-> {}, nextFrontier |-> <<>>]
      final == visitHops(visitSeeds(st0, 1), entityNames, 0)
  IN [entities |-> final.resultEntities, relationships |-> final.resultRels]

\* getContext (graph.ts:95-149); st holds visitedNodes, resultEntities,
\* resultRels, seenEdges and nextFrontier
getContext(g, entityNames, maxHops) ==
  LET pushEntity(ents, name) ==
        IF MapHas(g.nodes, name) /\ Len(ents) < MAX_GRAPH_ENTITIES
        THEN LET node == MapGet(g.nodes, name)
             IN Append(ents, [name |-> node.name, type |-> node.type,
                              summary |-> node.summary])
        ELSE ents
      \* the seed loop (graph.ts:102-109)
      RECURSIVE visitSeeds(_, _)
      visitSeeds(st, i) ==
        IF i > Len(entityNames) THEN st
        ELSE visitSeeds(IF entityNames[i] \in st.visitedNodes THEN st
                        ELSE [st EXCEPT !.visitedNodes = @ \cup {entityNames[i]},
                                        !.resultEntities = pushEntity(@, entityNames[i])],
                        i + 1)
      \* one edge of the adjacency list of `name` (graph.ts:118-142)
      visitEdge(st, name, edge) ==
        IF edgeKey(edge) \in st.seenEdges THEN st
        ELSE LET other == IF edge.source = name THEN edge.target ELSE edge.source
                 st1 == [st EXCEPT
                           !.seenEdges = @ \cup {edgeKey(edge)},
                           !.resultRels =
                              IF Len(@) < MAX_GRAPH_RELATIONSHIPS
                              THEN Append(@, [source |-> edge.source,
                                              target |-> edge.target,
                                              relation |-> edge.relation,
                                              date |-> edge.date])
                              ELSE @]
             IN IF other \in st1.visitedNodes THEN st1
                ELSE [st1 EXCEPT !.visitedNodes = @ \cup {other},
                                 !.nextFrontier = Append(@, other),
                                 !.resultEntities = pushEntity(@, other)]
      RECURSIVE visitEdges(_, _, _, _)
      visitEdges(st, name, edges, i) ==
        IF i > Len(edges) THEN st
        ELSE visitEdges(visitEdge(st, name, edges[i]), name, edges, i + 1)
      \* the loop over the frontier (graph.ts:116-143)
      RECURSIVE visitFrontier(_, _, _)
      visitFrontier(st, frontier, i) ==
        IF i > Len(frontier) THEN st
        ELSE visitFrontier(visitEdges(st, frontier[i],
                                      IF MapHas(g.adjacency, frontier[i])
                                      THEN MapGet(g.adjacency, frontier[i]) ELSE <<>>, 1),
                           frontier, i + 1)
      \* the loop over the hops (graph.ts:113-146)
      RECURSIVE visitHops(_, _, _)
      visitHops(st, frontier, hop) ==
        IF hop < maxHops /\ Len(frontier) > 0
        THEN LET st1 == visitFrontier([st EXCEPT !.nextFrontier = <<>>], frontier, 1)
             IN visitHops(st1, st1.nextFrontier, hop + 1)
        ELSE st
      st0 == [visitedNodes |-> {}, resultEntities |-> <<>>, resultRels |-> <<>>,
              seenEdges |-> {}, nextFrontier |-> <<>>]
      final == visitHops(visitSeeds(st0, 1), entityNames, 0)
  IN [entities |-> final.resultEntities, relationships |-> final.resultRels]

\* save (graph.ts:159-176): the nodes in map order; every adjacency list in
\* turn, each key once
save(g) ==
  LET RECURSIVE saveList(_, _, _)
      saveList(acc, edges, i) ==
        IF i > Len(edges) THEN acc
        ELSE saveList(IF \E j \in DOMAIN acc : edgeKey(acc[j]) = edgeKey(edges[i])
                      THEN acc ELSE Append(acc, edges[i]),
                      edges, i + 1)
      RECURSIVE saveEdges(_, _)
      saveEdges(acc, i) ==
        IF i > Len(g.adjacency) THEN acc
        ELSE saveEdges(saveList(acc, g.adjacency[i].v, 1), i + 1)
  IN [nodes |-> [i \in DOMAIN g.nodes |-> g.nodes[i].v], edges |-> saveEdges(<<>>, 1)]

\* load that does not rebuild the name index
load_NoIndex(data) ==
  LET RECURSIVE loadNodes(_, _)
      loadNodes(g, i) ==
        IF i > Len(data.nodes) THEN g
        ELSE loadNodes([g EXCEPT !.nodes = MapSet(@, data.nodes[i].name, data.nodes[i])],
                       i + 1)
      RECURSIVE loadEdges(_, _)
      loadEdges(g, i) ==
        IF i > Len(data.edges) THEN g
        ELSE loadEdges(addRelationship(g, data.edges[i]), i + 1)
  IN loadEdges(loadNodes(EmptyGraph, 1), 1)

\* load (graph.ts:178-202): clear, then the nodes, then the edges
load(data) ==
  LET RECURSIVE loadNodes(_, _)
      loadNodes(g, i) ==
        IF i > Len(data.nodes) THEN g
        ELSE loadNodes([g EXCEPT !.nodes = MapSet(@, data.nodes[i].name, data.nodes[i]),
                                 !.nameIndex = indexNode(@, data.nodes[i].name)],
                       i + 1)
      RECURSIVE loadEdges(_, _)
      loadEdges(g, i) ==
        IF i > Len(data.edges) THEN g
        ELSE loadEdges(addRelationship(g, data.edges[i]), i + 1)
  IN loadEdges(loadNodes(EmptyGraph, 1), 1)

\* ---- An EntityGraph used directly by a caller ----
\* edge.date when the edge has none
NoDate == <<>>
\* The edges the caller passes to addRelationship
EdgeInputs ==
  LET TripleInputs ==
        {<<<<"Alice">>, <<"married_to">>, <<"Bob">>>>,
         <<<<"Alice">>, <<"works_at">>, <<"Acme">>>>,
         <<<<"Bob">>, <<"works_at">>, <<"Bob">>>>,
         <<<<"Al">>, <<"works_at">>, <<"Acme">>>>,
         <<<<"a", Pipe, "b">>, <<"c">>, <<"d">>>>,
         <<<<"a">>, <<"b", Pipe, "c">>, <<"d">>>>}
  IN {[source |-> tr[1], relation |-> tr[2], target |-> tr[3], date |-> NoDate,
       sessionId |-> s] : tr \in TripleInputs, s \in 1..2}

tripleOf(edge) == <<edge.source, edge.relation, edge.target>>

\* gcontext when the last call was neither getContext nor a round trip
NoContext ==
  [called |-> FALSE, store |-> "none", entityNames |-> <<>>, maxHops |-> 0,
   result |-> [entities |-> <<>>, relationships |-> <<>>]]

GraphInit ==
  /\ entityGraph = EmptyGraph
  /\ everAdded = {}
  /\ graphCalls = 0
  /\ gcontext = NoContext

\* A call of entityGraph.addEntity
GraphAddEntity(name, type, summary, sessionId) ==
  /\ graphCalls < MaxGraphCalls
  /\ graphCalls' = graphCalls + 1
  /\ entityGraph' = addEntity(entityGraph, name, type, summary, sessionId)
  /\ gcontext' = NoContext
  /\ UNCHANGED everAdded
  /\ GraphFrame

\* A call of entityGraph.addRelationship
GraphAddRelationship(edge) ==
  /\ graphCalls < MaxGraphCalls
  /\ graphCalls' = graphCalls + 1
  /\ entityGraph' = addRelationship(entityGraph, edge)
  /\ everAdded' = everAdded \cup {tripleOf(edge)}
  /\ gcontext' = NoContext
  /\ GraphFrame

\* The snapshots a caller may hand to load: that of a graph of four entities
\* with a cycle Alice - Bob - Acme - Alice, a self-loop and a fifth edge
SnapshotInputs ==
  LET Entity(g, name) == addEntity(g, name, <<"Person">>, <<"x">>, 1)
      Edge(g, source, relation, target) ==
        addRelationship(g, [source |-> source, relation |-> relation,
                            target |-> target, date |-> NoDate, sessionId |-> 1])
      g4 == Entity(Entity(Entity(Entity(EmptyGraph, <<"Alice">>), <<"Bob">>),
                          <<"Acme">>), <<"Al">>)
      g5 == Edge(Edge(Edge(g4, <<"Alice">>, <<"married_to">>, <<"Bob">>),
                      <<"Bob">>, <<"works_at">>, <<"Acme">>),
                 <<"Acme">>, <<"tell">>, <<"Alice">>)
  IN {save(Edge(Edge(g5, <<"Bob">>, <<"works_at">>, <<"Bob">>),
                <<"Al">>, <<"works_at">>, <<"Acme">>))}

\* A call of entityGraph.load
GraphLoad(data) ==
  /\ graphCalls < MaxGraphCalls
  /\ graphCalls' = graphCalls + 1
  /\ entityGraph' = load(data)
  /\ everAdded' = {tripleOf(data.edges[i]) : i \in DOMAIN data.edges}
  /\ gcontext' = NoContext
  /\ GraphFrame

\* The snapshot of entityGraph is written and read back:
\* entityGraph.load(entityGraph.save())
GraphRoundTrip ==
  /\ graphCalls < MaxGraphCalls
  /\ graphCalls' = graphCalls + 1
  /\ entityGraph' = load(save(entityGraph))
  /\ gcontext' = [NoContext EXCEPT !.store = "snapshot"]
  /\ UNCHANGED everAdded
  /\ GraphFrame

\* The seed lists a caller may hand to getContext: empty, a name twice, an
\* unknown name, more seeds than MAX_GRAPH_ENTITIES
SeedInputs ==
  {<<>>, <<<<"Alice">>>>, <<<<"Acme">>>>, <<<<"Bob">>, <<"Bob">>>>, <<<<"me">>>>,
   <<<<"Al">>, <<"Alice">>>>, <<<<"Alice">>, <<"Bob">>, <<"Acme">>, <<"Al">>>>}
\* The values of maxHops a caller may give
HopInputs == {-1, 0, 1, 2, 3}

\* A call of entityGraph.getContext.  It is the last call of a run: it leaves
\* the graph as it is, so the calls that could follow it are those that follow
\* the state it is made in.
GraphGetContext(entityNames, maxHops) ==
  /\ graphCalls < MaxGraphCalls
  /\ graphCalls' = MaxGraphCalls
  /\ gcontext' = [called |-> TRUE, store |-> "EntityGraph",
                  entityNames |-> entityNames, maxHops |-> maxHops,
                  result |-> getContext(entityGraph, entityNames, maxHops)]
  /\ UNCHANGED <<entityGraph, everAdded>>
  /\ GraphFrame

\* The names and summaries the caller passes to addEntity: a name to trim, a
\* blank name, and a summary one character longer than the stored maximum
EntityInputs ==
  [name : {<<"Alice">>, <<"Bob">>, <<Blank, "Acme">>, <<Blank>>},
   summary : {<<>>, <<"x">>, <<"x", "y">>, [i \in 1..(SummaryMax + 1) |-> "x"]}]

GraphNext ==
  \/ \E e \in EntityInputs : GraphAddEntity(e.name, <<"Person">>, e.summary, 1)
  \/ \E edge \in EdgeInputs : GraphAddRelationship(edge)


\* ------------------------------------------------------------------------
\* rerankResults (part_003 191-266)
\* ------------------------------------------------------------------------
\* A search result is a record with the fields id, score and rerankScore
\* (and, for a chunk of the index, content and by).  Scores are counted in
\* thousandths: score 700 is 0.7.  rerankScore is NoRerankScore when the
\* result carries none.
NoRerankScore == -1

\* results.slice(0, topK)
slice(list, topK) == SubSeq(list, 1, IF topK < Len(list) THEN topK ELSE Len(list))

\* What one call of the reranker LLM (part_003:223-239) can come to:
\*   throws    generateText rejects
\*   noBlock   the text has no '[...]' block
\*   badJson   the block is not JSON
\*   scores    the block is a JSON array of {index, score}
\*   nullEntry the block is the JSON array [null]: `s.index` throws at
\*             part_003:241 and the catch clause takes over
LLMFailures ==
  {[kind |-> "throws"], [kind |-> "noBlock"], [kind |-> "badJson"], [kind |-> "nullEntry"]}
\* The score arrays the LLM may answer with: up to 2 entries, indices from 0 to
\* NResults - 1, not all indices covered, an index possibly twice
LLMScores ==
  LET Pairs == [index : 0..(NResults - 1), score : {3, 7}]
      ScoreArrays == {<<>>} \cup {<<p>> : p \in Pairs} \cup {<<p, q>> : p \in Pairs, q \in Pairs}
  IN {[kind |-> "scores", scores |-> a] : a \in ScoreArrays}

\* Faulty variant of reranked: the scored results are not sorted.
reranked_Unsorted(list, scores, topK) ==
  LET scoreMap(i) ==
        IF \E j \in DOMAIN scores : scores[j].index = i
        THEN scores[CHOOSE j \in DOMAIN scores :
                      /\ scores[j].index = i
                      /\ \A l \in DOMAIN scores : scores[l].index = i => l <= j].score
        ELSE 0
  IN [i \in DOMAIN slice(list, topK) |->
        [list[i] EXCEPT !.rerankScore = scoreMap(i - 1), !.score = scoreMap(i - 1) * 100]]

\* The value built at part_003:240-251: the score of each index (the last entry
\* of an index wins, a missing index scores 0), a stable sort by descending
\* rerankScore, the first topK, score = rerankScore / 10
reranked(list, scores, topK) ==
  LET scoreMap(i) ==
        IF \E j \in DOMAIN scores : scores[j].index = i
        THEN scores[CHOOSE j \in DOMAIN scores :
                      /\ scores[j].index = i
                      /\ \A l \in DOMAIN scores : scores[l].index = i => l <= j].score
        ELSE 0
      mapped == [i \in DOMAIN list |-> [result |-> list[i], rerankScore |-> scoreMap(i - 1)]]
      \* Array.prototype.sort with (a, b) => b.rerankScore - a.rerankScore: stable
      RECURSIVE insert(_, _)
      insert(sorted, x) ==
        IF sorted = <<>> THEN <<x>>
        ELSE IF sorted[Len(sorted)].rerankScore >= x.rerankScore THEN Append(sorted, x)
        ELSE Append(insert(SubSeq(sorted, 1, Len(sorted) - 1), x), sorted[Len(sorted)])
      RECURSIVE sort(_, _)
      sort(sorted, i) == IF i > Len(mapped) THEN sorted ELSE sort(insert(sorted, mapped[i]), i + 1)
      top == slice(sort(<<>>, 1), topK)
  IN [i \in DOMAIN top |->
        [top[i].result EXCEPT !.rerankScore = top[i].rerankScore,
                              !.score = top[i].rerankScore * 100]]

\* Positions of a rerankResults call:
\*   idle      no call outstanding
\*   calling   suspended at `await generateText(...)` (part_003:223)
\*   backoff   suspended at the delay before the next attempt (part_003:232, 257)
\*   returned  the call has returned rout; its caller has not resumed yet

RerankInit ==
  /\ rpc = "idle"
  /\ rresults = <<>>
  /\ rtopK = 0
  /\ rattempt = 0
  /\ rcalls = 0
  /\ rfailed = 0
  /\ rout = <<>>

\* Faulty variant of rerankResults: a list of exactly topK results is sent to
\* the LLM.
rerankResults_Strict(list, topK) ==
  /\ rresults' = list
  /\ rtopK' = topK
  /\ rattempt' = 0
  /\ rfailed' = 0
  /\ IF Len(list) < topK
     THEN rpc' = "returned" /\ rout' = list /\ rcalls' = 0
     ELSE rpc' = "calling" /\ rout' = <<>> /\ rcalls' = 1

\* rerankResults(openai, query, results, topK) up to its return or its first
\* await (part_003:191-223)
rerankResults(list, topK) ==
  /\ rresults' = list
  /\ rtopK' = topK
  /\ rattempt' = 0
  /\ rfailed' = 0
  /\ IF Len(list) <= topK
     THEN rpc' = "returned" /\ rout' = list /\ rcalls' = 0
     ELSE rpc' = "calling" /\ rout' = <<>> /\ rcalls' = 1

\* Faulty variant of RerankFailure: it gives up after the second attempt.
RerankFailure_GiveUpEarly(reply) ==
  /\ rpc = "calling"
  /\ reply \in LLMFailures
  /\ rfailed' = rfailed + 1
  /\ IF rattempt < lastRerankAttempt - 1
     THEN rpc' = "backoff" /\ rout' = rout
     ELSE rpc' = "returned" /\ rout' = slice(rresults, rtopK)
  /\ UNCHANGED <<rresults, rtopK, rattempt, rcalls>>

\* The attempt fails (part_003:229-237, 255-262): another attempt after the
\* delay, or after the last attempt the first topK results as they are
RerankFailure(reply) ==
  /\ rpc = "calling"
  /\ reply \in LLMFailures
  /\ rfailed' = rfailed + 1
  /\ IF rattempt < lastRerankAttempt
     THEN rpc' = "backoff" /\ rout' = rout
     ELSE rpc' = "returned" /\ rout' = slice(rresults, rtopK)
  /\ UNCHANGED <<rresults, rtopK, rattempt, rcalls>>

\* The attempt yields a score array (part_003:239-254)
RerankSuccess(reply) ==
  /\ rpc = "calling"
  /\ reply \in LLMScores
  /\ rpc' = "returned"
  /\ rout' = reranked(rresults, reply.scores, rtopK)
  /\ UNCHANGED <<rresults, rtopK, rattempt, rcalls, rfailed>>

\* The delay is over (part_003:232-233, 257-258, 221-223): the next attempt
RerankTimer ==
  /\ rpc = "backoff"
  /\ rattempt + 1 < rerankAttempts
  /\ rpc' = "calling"
  /\ rattempt' = rattempt + 1
  /\ rcalls' = rcalls + 1
  /\ UNCHANGED <<rresults, rtopK, rout, rfailed>>

\* ---- rerankResults called directly ----
\* The result lists a caller passes: the results 1..NResults in any order,
\* without repeats
ResultInputs ==
  LET Item(i) == [id |-> i, score |-> 1000 - 100 * i, rerankScore |-> NoRerankScore]
      Lists(n) == {f \in [1..n -> 1..NResults] : \A i, j \in 1..n : f[i] = f[j] => i = j}
  IN {[i \in DOMAIN f |-> Item(f[i])] : f \in UNION {Lists(n) : n \in 0..NResults}}

RerankCall(list, topK) ==
  /\ rpc = "idle"
  /\ spc \notin {"embedding", "reranking"}
  /\ rerankResults(list, topK)
  /\ RerankFrame

\* The caller resumes with the returned list
RerankReturn ==
  /\ rpc = "returned"
  /\ spc # "reranking"
  /\ rpc' = "idle"
  /\ UNCHANGED <<rresults, rtopK, rattempt, rcalls, rfailed, rout>>
  /\ RerankFrame

RerankNext ==
  \/ \E list \in ResultInputs, topK \in 0..NResults : RerankCall(list, topK)
  \/ \E reply \in LLMFailures : RerankFailure(reply) /\ RerankFrame
  \/ \E reply \in LLMScores : RerankSuccess(reply) /\ RerankFrame
  \/ RerankTimer /\ RerankFrame
  \/ RerankReturn

\* ------------------------------------------------------------------------
\* chunkText (part_002 31-65)
\* ------------------------------------------------------------------------
\* chunkText with `start = breakPoint + 1 + overlap`
chunkText_Forward(text, chunkSize, overlap) ==
  LET length == Len(text)
      \* text.lastIndexOf(sep, fromIndex)
      lastIndexOf(sep, fromIndex) ==
        LET found == {i \in 0..Min(fromIndex, length - Len(sep)) :
                        SubSeq(text, i + 1, i + Len(sep)) = sep}
        IN IF found = {} THEN -1 ELSE CHOOSE i \in found : \A j \in found : j <= i
      \* text.slice(first, last).trim()
      piece(first, last) ==
        LET raw == SubSeq(text, first + 1, Min(last, length))
            RECURSIVE leading(_)
            leading(i) == IF i <= Len(raw) /\ raw[i] \in {Blank, Newline}
                          THEN leading(i + 1) ELSE i - 1
        IN [str |-> trim(raw), from |-> first + leading(1),
            to |-> first + leading(1) + Len(trim(raw)) - 1]
      \* `breakPoint <= start || breakPoint < start + chunkSize * 0.5`
      TooEarly(breakPoint, start) ==
        breakPoint <= start \/ 2 * breakPoint < 2 * start + chunkSize
      \* part_002:47-56
      breakPointOf(start, end) ==
        LET bp1 == lastIndexOf(<<Dot, Blank>>, end)
            bp2 == IF TooEarly(bp1, start) THEN lastIndexOf(<<Newline>>, end) ELSE bp1
            bp3 == IF TooEarly(bp2, start) THEN lastIndexOf(<<Blank>>, end) ELSE bp2
        IN IF bp3 <= start THEN end ELSE bp3
      \* the while loop (part_002:39-62)
      RECURSIVE loop(_, _, _)
      loop(start, chunks, starts) ==
        IF ~(start < length) THEN [returns |-> TRUE, chunks |-> chunks]
        ELSE IF start \in starts THEN [returns |-> FALSE, chunks |-> <<>>]
        ELSE IF start + chunkSize >= length
        THEN [returns |-> TRUE, chunks |-> Append(chunks, piece(start, length))]
        ELSE LET breakPoint == breakPointOf(start, start + chunkSize)
                 next == breakPoint + 1 + overlap
             IN loop(IF next < 0 THEN 0 ELSE next,
                     Append(chunks, piece(start, breakPoint + 1)),
                     starts \cup {start})
      looped == loop(0, <<>>, {})
  IN IF length <= chunkSize
     THEN [returns |-> TRUE, chunks |-> <<piece(0, length)>>]
     ELSE [looped EXCEPT !.chunks = SelectSeq(@, LAMBDA c : Len(c.str) > 0)]

\* A text is a sequence of characters, the character at index i of the code
\* being text[i + 1].  A chunk is a record: str is the string the code
\* returns; from and to are the indices in the text of its first and last
\* character, which the code does not keep.  The function is a record too:
\* `returns` is FALSE when the loop comes back to a value of `start` it had
\* before, from which it repeats itself without end.
chunkText(text, chunkSize, overlap) ==
  LET length == Len(text)
      \* text.lastIndexOf(sep, fromIndex)
      lastIndexOf(sep, fromIndex) ==
        LET found == {i \in 0..Min(fromIndex, length - Len(sep)) :
                        SubSeq(text, i + 1, i + Len(sep)) = sep}
        IN IF found = {} THEN -1 ELSE CHOOSE i \in found : \A j \in found : j <= i
      \* text.slice(first, last).trim()
      piece(first, last) ==
        LET raw == SubSeq(text, first + 1, Min(last, length))
            RECURSIVE leading(_)
            leading(i) == IF i <= Len(raw) /\ raw[i] \in {Blank, Newline}
                          THEN leading(i + 1) ELSE i - 1
        IN [str |-> trim(raw), from |-> first + leading(1),
            to |-> first + leading(1) + Len(trim(raw)) - 1]
      \* `breakPoint <= start || breakPoint < start + chunkSize * 0.5`
      TooEarly(breakPoint, start) ==
        breakPoint <= start \/ 2 * breakPoint < 2 * start + chunkSize
      \* part_002:47-56
      breakPointOf(start, end) ==
        LET bp1 == lastIndexOf(<<Dot, Blank>>, end)
            bp2 == IF TooEarly(bp1, start) THEN lastIndexOf(<<Newline>>, end) ELSE bp1
            bp3 == IF TooEarly(bp2, start) THEN lastIndexOf(<<Blank>>, end) ELSE bp2
        IN IF bp3 <= start THEN end ELSE bp3
      \* the while loop (part_002:39-62)
      RECURSIVE loop(_, _, _)
      loop(start, chunks, starts) ==
        IF ~(start < length) THEN [returns |-> TRUE, chunks |-> chunks]
        ELSE IF start \in starts THEN [returns |-> FALSE, chunks |-> <<>>]
        ELSE IF start + chunkSize >= length
        THEN [returns |-> TRUE, chunks |-> Append(chunks, piece(start, length))]
        ELSE LET breakPoint == breakPointOf(start, start + chunkSize)
                 next == breakPoint + 1 - overlap
             IN loop(IF next < 0 THEN 0 ELSE next,
                     Append(chunks, piece(start, breakPoint + 1)),
                     starts \cup {start})
      looped == loop(0, <<>>, {})
  IN IF length <= chunkSize
     THEN [returns |-> TRUE, chunks |-> <<piece(0, length)>>]
     ELSE [looped EXCEPT !.chunks = SelectSeq(@, LAMBDA c : Len(c.str) > 0)]

\* ---- chunkText called directly ----
\* The characters of a text: a letter, a space, a newline, a full stop
TextInputs == UNION {[1..n -> {"a", Blank, Newline, Dot}] : n \in 0..MaxTextLen}

ChunkInit == chunked = [called |-> FALSE, text |-> <<>>, returns |-> FALSE, chunks |-> <<>>]

\* The call chunkText(text), with the default chunkSize and overlap
ChunkText(text) ==
  /\ ~chunked.called
  /\ LET result == chunkText(text, CHUNK_SIZE, CHUNK_OVERLAP)
     IN chunked' = [called |-> TRUE, text |-> text, returns |-> result.returns,
                    chunks |-> result.chunks]
  /\ UNCHANGED <<lockVars, poolVars, cacheVars, callVars, storeVars, searchVars, graphVars,
                 pgVars, rerankVars>>

\* One call is made in a run
ChunkNext == ~chunked.called /\ \E text \in TextInputs : ChunkText(text)

\* ------------------------------------------------------------------------
\* PgStore (pg.ts 15-368)
\* ------------------------------------------------------------------------
\* The database is a record of three tables, each the set of its rows.  A
\* SELECT without ORDER BY may return its rows in any order: a query takes the
\* order as a parameter, one of RowOrders.
RowOrders == {"asc", "desc"}
RowsOf(S, ord) ==
  LET RECURSIVE SetToSeq(_)
      SetToSeq(T) == IF T = {} THEN <<>>
                     ELSE LET x == CHOOSE y \in T : TRUE IN <<x>> \o SetToSeq(T \ {x})
      asc == SetToSeq(S)
  IN IF ord = "asc" THEN asc ELSE [i \in DOMAIN asc |-> asc[Len(asc) + 1 - i]]

\* The tables after initialize() on a new database (pg.ts:30-87)
EmptyDatabase == [rag_chunks |-> {}, rag_entities |-> {}, rag_relationships |-> {}]

\* 1 - (embedding <=> $1::vector) (pg.ts:145): the cosine of the angle between
\* the two vectors, in thousandths
vector_score(embedding, queryEmbedding) ==
  LET RECURSIVE dot(_, _, _)
      dot(a, b, i) == IF i > Len(a) THEN 0 ELSE a[i] * b[i] + dot(a, b, i + 1)
      norm(a) == LET square == dot(a, a, 1) IN CHOOSE n \in 0..square : n * n = square
  IN (1000 * dot(embedding, queryEmbedding, 1)) \div (norm(embedding) * norm(queryEmbedding))

\* ts_rank(content_tsv, plainto_tsquery('english', $4)) for the rows with
\* content_tsv @@ plainto_tsquery('english', $4), and 0 for the others
\* (pg.ts:152-157): the query matches when it has a word and the content has
\* all its words; the rank grows with the number of occurrences.
ts_rank(content, query) ==
  LET Words(str) == {toLowerCase(str)[i] : i \in DOMAIN str} \ {Blank, Newline}
      hits == {i \in DOMAIN content : toLowerCase(content)[i] \in Words(query)}
  IN IF Words(query) # {} /\ Words(query) \subseteq Words(content)
     THEN Cardinality(hits) ELSE 0

\* addChunks whose INSERT takes a chunk of another content for a new row
PgStore_addChunks_Insert(db, containerTag, chunks) ==
  LET insert(rows, chunk) ==
        IF \E r \in rows : r.id = chunk.id /\ r.content = chunk.content
        THEN {IF r.id = chunk.id
              THEN [r EXCEPT !.content = chunk.content, !.session_id = chunk.sessionId,
                             !.chunk_index = chunk.chunkIndex,
                             !.embedding = chunk.embedding]
              ELSE r : r \in rows}
        ELSE rows \cup {[id |-> chunk.id, container_tag |-> containerTag,
                          content |-> chunk.content, session_id |-> chunk.sessionId,
                          chunk_index |-> chunk.chunkIndex,
                          embedding |-> chunk.embedding]}
      RECURSIVE insertAll(_, _)
      insertAll(rows, i) ==
        IF i > Len(chunks) THEN rows ELSE insertAll(insert(rows, chunks[i]), i + 1)
  IN [db EXCEPT !.rag_chunks = insertAll(@, 1)]

\* addChunks (pg.ts:93-133): one transaction of INSERT ... ON CONFLICT (id) DO
\* UPDATE SET content, session_id, chunk_index, embedding, ... ; container_tag
\* is not among the columns updated
PgStore_addChunks(db, containerTag, chunks) ==
  LET insert(rows, chunk) ==
        IF \E r \in rows : r.id = chunk.id
        THEN {IF r.id = chunk.id
              THEN [r EXCEPT !.content = chunk.content, !.session_id = chunk.sessionId,
                             !.chunk_index = chunk.chunkIndex,
                             !.embedding = chunk.embedding]
              ELSE r : r \in rows}
        ELSE rows \cup {[id |-> chunk.id, container_tag |-> containerTag,
                          content |-> chunk.content, session_id |-> chunk.sessionId,
                          chunk_index |-> chunk.chunkIndex,
                          embedding |-> chunk.embedding]}
      RECURSIVE insertAll(_, _)
      insertAll(rows, i) ==
        IF i > Len(chunks) THEN rows ELSE insertAll(insert(rows, chunks[i]), i + 1)
  IN [db EXCEPT !.rag_chunks = insertAll(@, 1)]

\* search (pg.ts:135-192).  vector_results: the `limit` rows of the container
\* nearest to the query embedding; each with its lexical score, 0 when the
\* content does not match; scores in thousandths
PgStore_search(db, containerTag, queryEmbedding, query, limit, ord) ==
  LET candidates == RowsOf({r \in db.rag_chunks : r.container_tag = containerTag}, ord)
      scored == [i \in DOMAIN candidates |->
                   [row |-> candidates[i],
                    vector_score |-> vector_score(candidates[i].embedding, queryEmbedding),
                    bm25_score |-> ts_rank(candidates[i].content, query)]]
      \* a stable sort by descending `key`
      RECURSIVE insertBy(_, _, _)
      insertBy(sorted, x, key) ==
        IF sorted = <<>> THEN <<x>>
        ELSE IF sorted[Len(sorted)][key] >= x[key] THEN Append(sorted, x)
        ELSE Append(insertBy(SubSeq(sorted, 1, Len(sorted) - 1), x, key),
                    sorted[Len(sorted)])
      RECURSIVE sortBy(_, _, _, _)
      sortBy(sorted, list, i, key) ==
        IF i > Len(list) THEN sorted
        ELSE sortBy(insertBy(sorted, list[i], key), list, i + 1, key)
      \* ORDER BY embedding <=> $1::vector LIMIT $3
      rows == slice(sortBy(<<>>, scored, 1, "vector_score"), limit)
      \* pg.ts:164-168
      maxBm25 == IF rows = <<>> THEN 0
                 ELSE LET m == CHOOSE i \in DOMAIN rows :
                                 \A j \in DOMAIN rows : rows[j].bm25_score <= rows[i].bm25_score
                      IN rows[m].bm25_score
      \* pg.ts:170-187
      result(x) ==
        LET normalizedBm25 == IF maxBm25 > 0 THEN (1000 * x.bm25_score) \div maxBm25 ELSE 0
        IN [content |-> x.row.content,
            score |-> (7 * x.vector_score + 3 * normalizedBm25) \div 10,
            vectorScore |-> x.vector_score, bm25Score |-> normalizedBm25,
            sessionId |-> x.row.session_id, chunkIndex |-> x.row.chunk_index]
  IN sortBy(<<>>, [i \in DOMAIN rows |-> result(rows[i])], 1, "score")

\* hasData and getChunkCount (pg.ts:194-208)
PgStore_hasData(db, containerTag) ==
  \E r \in db.rag_chunks : r.container_tag = containerTag
PgStore_getChunkCount(db, containerTag) ==
  Cardinality({r \in db.rag_chunks : r.container_tag = containerTag})

\* addEntity (pg.ts:210-228): INSERT ... ON CONFLICT (container_tag, name) DO
\* UPDATE SET summary = SUBSTRING(old || ' ' || new FROM 1 FOR 500),
\* session_ids = array_cat(old, new)
PgStore_addEntity(db, containerTag, name, type, summary, sessionId) ==
  LET canonical == trim(name)
      Conflict(r) == r.container_tag = containerTag /\ r.name = canonical
      updated(r) == [r EXCEPT
                       !.summary = substring(@ \o <<Blank>> \o summary, SummaryMax),
                       !.session_ids = @ \o <<sessionId>>]
      inserted == [container_tag |-> containerTag, name |-> canonical,
                   type |-> toLowerCase(type), summary |-> summary,
                   session_ids |-> <<sessionId>>]
  IN IF canonical = <<>> THEN db
     ELSE [db EXCEPT !.rag_entities =
             IF \E r \in @ : Conflict(r)
             THEN {IF Conflict(r) THEN updated(r) ELSE r : r \in @}
             ELSE @ \cup {inserted}]

\* addRelationship (pg.ts:230-237): INSERT ... ON CONFLICT DO NOTHING, the
\* primary key being (container_tag, source, relation, target)
PgStore_addRelationship(db, containerTag, edge) ==
  LET Conflict(r) == /\ r.container_tag = containerTag
                     /\ tripleOf(r) = tripleOf(edge)
  IN IF \E r \in db.rag_relationships : Conflict(r) THEN db
     ELSE [db EXCEPT !.rag_relationships =
             @ \cup {[container_tag |-> containerTag, source |-> edge.source,
                       target |-> edge.target, relation |-> edge.relation,
                       date |-> edge.date, session_id |-> edge.sessionId]}]

\* getNodeCount and getEdgeCount (pg.ts:337-351)
PgStore_getNodeCount(db, containerTag) ==
  Cardinality({r \in db.rag_entities : r.container_tag = containerTag})
PgStore_getEdgeCount(db, containerTag) ==
  Cardinality({r \in db.rag_relationships : r.container_tag = containerTag})

\* getContext (pg.ts:259-335); st holds visitedNodes, resultEntities,
\* resultRels, seenEdges and nextFrontier
PgStore_getContext(db, containerTag, entityNames, maxHops, ord) ==
  LET \* SELECT name, type, summary FROM rag_entities WHERE container_tag = $1
      \* AND name = ANY($2) (pg.ts:272-276, 319-323)
      EntityRows(names) ==
        RowsOf({r \in db.rag_entities :
                  r.container_tag = containerTag /\ r.name \in SeqToSet(names)}, ord)
      \* SELECT ... FROM rag_relationships WHERE container_tag = $1 AND
      \* (source = ANY($2) OR target = ANY($2)) (pg.ts:290-294)
      EdgeRows(frontier) ==
        RowsOf({r \in db.rag_relationships :
                  /\ r.container_tag = containerTag
                  /\ r.source \in SeqToSet(frontier) \/ r.target \in SeqToSet(frontier)},
               ord)
      pushEntity(ents, row) ==
        IF Len(ents) < MAX_GRAPH_ENTITIES
        THEN Append(ents, [name |-> row.name, type |-> row.type, summary |-> row.summary])
        ELSE ents
      RECURSIVE pushEntities(_, _, _)
      pushEntities(ents, rows, i) ==
        IF i > Len(rows) THEN ents
        ELSE pushEntities(pushEntity(ents, rows[i]), rows, i + 1)
      \* the two endpoints of an edge (pg.ts:310-315)
      RECURSIVE visitOthers(_, _, _)
      visitOthers(st, others, i) ==
        IF i > Len(others) THEN st
        ELSE visitOthers(IF others[i] \in st.visitedNodes THEN st
                         ELSE [st EXCEPT !.visitedNodes = @ \cup {others[i]},
                                         !.nextFrontier = Append(@, others[i])],
                         others, i + 1)
      \* one row of the edge query (pg.ts:296-316)
      visitEdge(st, edge) ==
        IF edgeKey(edge) \in st.seenEdges THEN st
        ELSE visitOthers([st EXCEPT
                            !.seenEdges = @ \cup {edgeKey(edge)},
                            !.resultRels =
                               IF Len(@) < MAX_GRAPH_RELATIONSHIPS
                               THEN Append(@, [source |-> edge.source,
                                               target |-> edge.target,
                                               relation |-> edge.relation,
                                               date |-> edge.date])
                               ELSE @],
                         <<edge.source, edge.target>>, 1)
      RECURSIVE visitEdges(_, _, _)
      visitEdges(st, edges, i) ==
        IF i > Len(edges) THEN st
        ELSE visitEdges(visitEdge(st, edges[i]), edges, i + 1)
      \* the loop over the hops (pg.ts:287-332)
      RECURSIVE visitHops(_, _, _)
      visitHops(st, frontier, hop) ==
        IF hop < maxHops /\ Len(frontier) > 0
        THEN LET st1 == visitEdges([st EXCEPT !.nextFrontier = <<>>],
                                   EdgeRows(frontier), 1)
                 st2 == [st1 EXCEPT !.resultEntities =
                                       pushEntities(@, EntityRows(st1.nextFrontier), 1)]
             IN visitHops(st2, st2.nextFrontier, hop + 1)
        ELSE st
      seedRows == EntityRows(entityNames)
      st0 == [visitedNodes |-> {seedRows[i].name : i \in DOMAIN seedRows},
              resultEntities |-> pushEntities(<<>>, seedRows, 1),
              resultRels |-> <<>>, seenEdges |-> {}, nextFrontier |-> <<>>]
      final == visitHops(st0, SelectSeq(entityNames, LAMBDA n : n \in st0.visitedNodes), 0)
  IN [entities |-> final.resultEntities, relationships |-> final.resultRels]

\* clear (pg.ts:353-367): the three DELETEs of one transaction
PgStore_clear(db, containerTag) ==
  [rag_chunks |-> {r \in db.rag_chunks : r.container_tag # containerTag},
   rag_entities |-> {r \in db.rag_entities : r.container_tag # containerTag},
   rag_relationships |-> {r \in db.rag_relationships : r.container_tag # containerTag}]

\* ---- A PgStore used directly by a caller ----
\* pgout before the first call
NoCall ==
  [op |-> "none", containerTag |-> 0, chunks |-> <<>>, queryEmbedding |-> <<>>,
   query |-> <<>>, limit |-> 0, result |-> <<>>, entity |-> <<>>]

\* The database the PgStore is opened on holds the rows of earlier runs:
\* container 2 has one chunk and the entities and relationships of
\* SnapshotInputs.
PgInit ==
  LET data == CHOOSE d \in SnapshotInputs : TRUE
      RECURSIVE withNodes(_, _)
      withNodes(db, i) ==
        IF i > Len(data.nodes) THEN db
        ELSE withNodes(PgStore_addEntity(db, 2, data.nodes[i].name, data.nodes[i].type,
                                         data.nodes[i].summary, 1), i + 1)
      RECURSIVE withEdges(_, _)
      withEdges(db, i) ==
        IF i > Len(data.edges) THEN db
        ELSE withEdges(PgStore_addRelationship(db, 2, data.edges[i]), i + 1)
      chunk == [id |-> 1, content |-> <<"Alice">>, sessionId |-> 3, chunkIndex |-> 0,
                embedding |-> <<0, 10>>]
  IN /\ pg = withEdges(withNodes(PgStore_addChunks(EmptyDatabase, 2, <<chunk>>), 1), 1)
     /\ pgCalls = 0
     /\ pgout = NoCall

\* A call of pgStore.getContext; it counts among the calls made on a graph and,
\* like GraphGetContext, is the last call of a run
GraphPgGetContext(containerTag, entityNames, maxHops, ord) ==
  /\ graphCalls < MaxGraphCalls
  /\ graphCalls' = MaxGraphCalls
  /\ gcontext' = [called |-> TRUE, store |-> "PgStore",
                  entityNames |-> entityNames, maxHops |-> maxHops,
                  result |-> PgStore_getContext(pg, containerTag, entityNames, maxHops,
                                                ord)]
  /\ UNCHANGED <<entityGraph, everAdded, pgVars, chunkVars>>
  /\ UNCHANGED <<lockVars, poolVars, cacheVars, callVars, storeVars, searchVars, rerankVars>>

PgFrame ==
  UNCHANGED <<lockVars, poolVars, cacheVars, callVars, storeVars, searchVars, graphVars,
              chunkVars, rerankVars>>

\* The chunk lists a caller hands to addChunks: the empty list, chunks of the
\* same id, of the same embedding, of opposite embeddings
ChunkInputs ==
  LET c1 == [id |-> 1, content |-> <<"Alice", Blank, "Acme">>, sessionId |-> 1,
             chunkIndex |-> 0, embedding |-> <<10, 0>>]
      c2 == [id |-> 2, content |-> <<"hello">>, sessionId |-> 1, chunkIndex |-> 1,
             embedding |-> <<8, 6>>]
      c3 == [id |-> 1, content |-> <<"hello">>, sessionId |-> 2, chunkIndex |-> 0,
             embedding |-> <<-10, 0>>]
      c4 == [id |-> 3, content |-> <<"Alice", Blank, "Alice">>, sessionId |-> 2,
             chunkIndex |-> 1, embedding |-> <<10, 0>>]
  IN {<<>>, <<c1>>, <<c2>>, <<c3>>, <<c4>>, <<c1, c2>>, <<c1, c3>>}
\* The query embeddings, query texts and limits of a search
EmbeddingInputs == {<<10, 0>>, <<8, 6>>}
PgQueryInputs == {<<"Alice">>, <<"hello">>}
LimitInputs == {1, 2}

\* A call of pgStore.addChunks
PgAddChunks(containerTag, chunks) ==
  /\ pgCalls < MaxPgCalls
  /\ pgCalls' = pgCalls + 1
  /\ pg' = IF chunks = <<>> THEN pg ELSE PgStore_addChunks(pg, containerTag, chunks)
  /\ pgout' = [NoCall EXCEPT !.op = "addChunks", !.containerTag = containerTag,
                             !.chunks = chunks]
  /\ PgFrame

\* A call of pgStore.search.  It is the last call of a run: it leaves the
\* database as it is.
PgSearch(containerTag, queryEmbedding, query, limit, ord) ==
  /\ pgCalls < MaxPgCalls
  /\ pgCalls' = MaxPgCalls
  /\ pgout' = [NoCall EXCEPT !.op = "search", !.containerTag = containerTag,
                             !.queryEmbedding = queryEmbedding, !.query = query,
                             !.limit = limit,
                             !.result = PgStore_search(pg, containerTag, queryEmbedding,
                                                       query, limit, ord)]
  /\ UNCHANGED pg
  /\ PgFrame

\* A call of pgStore.addEntity
PgAddEntity(containerTag, name, type, summary, sessionId) ==
  /\ pgCalls < MaxPgCalls
  /\ pgCalls' = pgCalls + 1
  /\ pg' = PgStore_addEntity(pg, containerTag, name, type, summary, sessionId)
  /\ pgout' = [NoCall EXCEPT !.op = "addEntity", !.containerTag = containerTag,
                             !.entity = [name |-> name, type |-> type,
                                         summary |-> summary, sessionId |-> sessionId]]
  /\ PgFrame

\* A call of pgStore.addRelationship
PgAddRelationship(containerTag, edge) ==
  /\ pgCalls < MaxPgCalls
  /\ pgCalls' = pgCalls + 1
  /\ pg' = PgStore_addRelationship(pg, containerTag, edge)
  /\ pgout' = [NoCall EXCEPT !.op = "addRelationship", !.containerTag = containerTag]
  /\ PgFrame

\* A call of pgStore.clear
PgClear(containerTag) ==
  /\ pgCalls < MaxPgCalls
  /\ pgCalls' = pgCalls + 1
  /\ pg' = PgStore_clear(pg, containerTag)
  /\ pgout' = [NoCall EXCEPT !.op = "clear", !.containerTag = containerTag]
  /\ PgFrame

\* The calls are made on the containers 1 and 2
PgNext ==
  \E containerTag \in {1, 2} :
    \/ \E chunks \in ChunkInputs : PgAddChunks(containerTag, chunks)
    \/ \E queryEmbedding \in EmbeddingInputs, query \in PgQueryInputs,
          limit \in LimitInputs, ord \in RowOrders :
         PgSearch(containerTag, queryEmbedding, query, limit, ord)
    \/ PgAddEntity(containerTag, <<"Alice">>, <<"Person">>, <<"y">>, 2)
    \/ \E edge \in EdgeInputs :
         /\ edge.sessionId = 1
         /\ edge.source = <<"Al">>
         /\ PgAddRelationship(containerTag, edge)
    \/ PgClear(containerTag)

\* ------------------------------------------------------------------------
\* RAGProvider: ingest and search (part_002 166-433)
\* ------------------------------------------------------------------------
\* Positions of an ingest call:
\*   idle        not called yet
\*   extracting  suspended at `await Promise.all(batch.map(extractSession))` (part_002:230)
\*   embedding   inside the retry loop of an embedding batch (part_002:299-308)
\*   done        returned { documentIds }
\*   failed      rejected
CallPcs == {"idle", "extracting", "embedding", "done", "failed"}
Active(c) == cpc[c] \in {"extracting", "embedding"}


\* No search.json and no graph.json on disk
NoSnapshot ==
  [saved |-> FALSE, chunks |-> {}, graphSaved |-> FALSE, graph |-> save(EmptyGraph)]
\* The list a search returns when it finds nothing
NoResult == <<>>
\* Nothing was put under a tag
NoneIngested == [chunks |-> {}, names |-> {}]
\* The history of a search call:
\*   clean        the call began when `cleared` held of its tag, and no ingest on
\*                the tag has begun since
\*   clearedMid   clear(tag) ran while the call awaited the reranker
\*   graphAtRead  the graph of the tag when the call read the index
\*   reranked     the call invoked the reranker
NoHistory ==
  [clean |-> FALSE, clearedMid |-> FALSE, graphAtRead |-> EmptyGraph, reranked |-> FALSE]

IngestInit ==
  /\ extractionCache = [s \in Sessions |-> NoText]
  /\ extractionInFlight = [s \in Sessions |-> FALSE]
  /\ cpc = [c \in Calls |-> "idle"]
  /\ csessions = [c \in Calls |-> <<>>]
  /\ ctag = [c \in Calls |-> 1]
  /\ cbatch = [c \in Calls |-> 0]
  /\ results = [c \in Calls |-> <<>>]
  /\ extractions = [c \in Calls |-> <<>>]
  /\ embedded = [c \in Calls |-> 0]
  /\ eattempt = [c \in Calls |-> 0]
  /\ documentIds = [c \in Calls |-> <<>>]
  /\ searchEngine = [t \in Tags |-> {}]
  /\ graphs = [t \in Tags |-> EmptyGraph]
  /\ snapshot = [t \in Tags |-> NoSnapshot]
  /\ cdetached = [c \in Calls |-> FALSE]
  /\ ingested = [t \in Tags |-> NoneIngested]
  /\ cleared = [t \in Tags |-> FALSE]
  /\ spc = "idle"
  /\ stag = 1
  /\ squery = <<>>
  /\ slimit = 0
  /\ sattempt = 0
  /\ overfetchLimit = 0
  /\ hybridResults = <<>>
  /\ sresult = NoResult
  /\ shistory = NoHistory
  /\ nStarted = [s \in Sessions |-> 0]
  /\ nFailed = [s \in Sessions |-> 0]
  /\ overlapped = {}

\* The number of chunks chunkText makes of the memories of an extraction
\* (part_002:246, 265-268): text "a" is short, text "b" needs two chunks.
ChunkCount(v) == IF v = "a" THEN 1 ELSE 2
\* Whether parseExtractionOutput finds entities in the extraction (part_002:246-251)
HasEntities(v) == v = "b"

\* parseExtractionOutput (part_004:79-127) of the two texts: text "b" names
\* Alice, Bob and Acme, Alice married to Bob and working at Acme; text "a"
\* names nobody.
parseExtractionOutput(v) ==
  IF HasEntities(v)
  THEN [entities |->
          <<[name |-> <<"Alice">>, type |-> <<"Person">>, summary |-> <<"x">>],
            [name |-> <<"Bob">>, type |-> <<"Person">>, summary |-> <<"y">>],
            [name |-> <<"Acme">>, type |-> <<"org">>, summary |-> <<>>]>>,
        relationships |->
          <<[source |-> <<"Alice">>, relation |-> <<"married_to">>, target |-> <<"Bob">>,
             date |-> NoDate],
            [source |-> <<"Alice">>, relation |-> <<"works_at">>, target |-> <<"Acme">>,
             date |-> NoDate]>>]
  ELSE [entities |-> <<>>, relationships |-> <<>>]

\* The graph after the parse loop (part_002:238-262) over the sessions ss with
\* the extractions xs, from session i on
RECURSIVE buildGraph(_, _, _, _)
buildGraph(g, ss, xs, i) ==
  IF i > Len(ss) THEN g
  ELSE LET parsed == parseExtractionOutput(xs[i])
           RECURSIVE addEntities(_, _)
           addEntities(h, j) ==
             IF j > Len(parsed.entities) THEN h
             ELSE addEntities(addEntity(h, parsed.entities[j].name, parsed.entities[j].type,
                                        parsed.entities[j].summary, ss[i]),
                              j + 1)
           RECURSIVE addRelationships(_, _)
           addRelationships(h, j) ==
             IF j > Len(parsed.relationships) THEN h
             ELSE addRelationships(
                    addRelationship(h, [source |-> parsed.relationships[j].source,
                                        target |-> parsed.relationships[j].target,
                                        relation |-> parsed.relationships[j].relation,
                                        date |-> parsed.relationships[j].date,
                                        sessionId |-> ss[i]]),
                    j + 1)
       IN buildGraph(addRelationships(addEntities(g, 1), 1), ss, xs, i + 1)

\* The names of the nodes of a graph
NodeNames(g) == {g.nodes[i].k : i \in DOMAIN g.nodes}

\* sessions.slice(i, i + EXTRACTION_CONCURRENCY) (part_002:226)
BatchOf(ss, i) == SubSeq(ss, i + 1, Min(i + EXTRACTION_CONCURRENCY, Len(ss)))

\* The provider state one synchronous segment of ingest works on, with the
\* values its extractSession calls have settled with so far.
IngestNow ==
  [active |-> activeGlobalExtractions, queue |-> extractionQueue, pc |-> xpc,
   inFlight |-> extractionInFlight, started |-> nStarted, results |-> <<>>]

\* Faulty variant of extractSession: it does not look at extractionInFlight.
extractSession_NoInFlight(st, s) ==
  IF extractionCache[s] # NoText
  THEN [st EXCEPT !.results = Append(@, extractionCache[s])]
  ELSE [acquireExtractionSlot(st, s) EXCEPT !.inFlight[s] = TRUE, !.started[s] = @ + 1,
                                            !.results = Append(@, NoText)]

\* extractSession(session) up to its return or its first await (part_002:184-206):
\* a cache hit settles at once; otherwise the call joins the extraction in flight
\* or starts doExtract, which runs up to `await acquireExtractionSlot()`.
extractSession(st, s) ==
  IF extractionCache[s] # NoText
  THEN [st EXCEPT !.results = Append(@, extractionCache[s])]
  ELSE IF st.inFlight[s]
  THEN [st EXCEPT !.results = Append(@, NoText)]
  ELSE [acquireExtractionSlot(st, s) EXCEPT !.inFlight[s] = TRUE, !.started[s] = @ + 1,
                                            !.results = Append(@, NoText)]

\* batch.map(extractSession) (part_002:230): the calls run one after the other
RECURSIVE StartBatch(_, _, _)
StartBatch(st, ss, i) ==
  IF i > Len(ss) THEN st ELSE StartBatch(extractSession(st, ss[i]), ss, i + 1)

SetIngest(st) ==
  /\ SetPool(st)
  /\ extractionInFlight' = st.inFlight
  /\ nStarted' = st.started

\* The call awaits, in its current Promise.all, an extraction of session s
Waits(c, s) ==
  /\ cpc[c] = "extracting"
  /\ \E i \in DOMAIN results[c] :
       results[c][i] = NoText /\ BatchOf(csessions[c], cbatch[c])[i] = s

\* allChunks (part_002:238-282) of the sessions ss with the extractions xs, from session i on
RECURSIVE ChunksOf(_, _, _)
ChunksOf(ss, xs, i) ==
  IF i > Len(ss) THEN <<>>
  ELSE [k \in 1..ChunkCount(xs[i]) |->
          [sessionId |-> ss[i], chunkIndex |-> k - 1, text |-> xs[i]]]
       \o ChunksOf(ss, xs, i + 1)

allChunks(c) == ChunksOf(csessions[c], extractions[c], 1)

\* The first n embeddedChunks of call c (part_002:310-322); `by` records the call
\* that made the chunk and is not a field of the program.
embeddedChunks(c, n) ==
  [j \in 1..n |->
     [id |-> <<ctag[c], allChunks(c)[j].sessionId, allChunks(c)[j].chunkIndex>>,
      content |-> allChunks(c)[j].text, by |-> c]]

\* HybridSearchEngine.addChunks: upsert by id
addChunks(idx, chunks) ==
  {x \in idx : \A j \in DOMAIN chunks : chunks[j].id # x.id} \cup SeqToSet(chunks)

\* HybridSearchEngine.hasData
hasData(idx) == idx # {}

\* saveToCache (part_002:115-131) for an index idx and a graph g over the files snap
saveToCache(snap, idx, g) ==
  [saved |-> snap.saved \/ hasData(idx),
   chunks |-> IF hasData(idx) THEN idx ELSE snap.chunks,
   graphSaved |-> snap.graphSaved \/ nodeCount(g) > 0,
   graph |-> IF nodeCount(g) > 0 THEN save(g) ELSE snap.graph]

\* ingest(sessions, options) up to its first await (part_002:166-230); with no
\* session it returns at part_002:287
IngestStart(c, ss, t) ==
  /\ cpc[c] = "idle"
  /\ csessions' = [csessions EXCEPT ![c] = ss]
  /\ ctag' = [ctag EXCEPT ![c] = t]
  /\ overlapped' = overlapped \cup {{c, d} : d \in {e \in Calls : Active(e)}}
  /\ IF ss = <<>>
     THEN /\ cpc' = [cpc EXCEPT ![c] = "done"]
          /\ UNCHANGED <<activeGlobalExtractions, extractionQueue, xpc,
                         extractionInFlight, nStarted, results>>
     ELSE LET st == StartBatch(IngestNow, BatchOf(ss, 0), 1)
          IN /\ SetIngest(st)
             /\ results' = [results EXCEPT ![c] = st.results]
             /\ cpc' = [cpc EXCEPT ![c] = "extracting"]
  /\ cdetached' = [cdetached EXCEPT ![c] = FALSE]
  /\ cleared' = [cleared EXCEPT ![t] = FALSE]
  /\ shistory' = IF t = stag THEN [shistory EXCEPT !.clean = FALSE] ELSE shistory
  /\ UNCHANGED <<xattempt, xval, extractionCache, nFailed, cbatch, extractions,
                 embedded, eattempt, documentIds, searchEngine, graphs, snapshot, ingested,
                 spc, stag, squery, slimit, sattempt, overfetchLimit, hybridResults, sresult,
                 lockVars, graphVars, pgVars, chunkVars, rerankVars>>

\* extractSession resumes after `await promise` (part_002:206-219): it caches the
\* result or rethrows, and removes the in-flight entry.  The callers that joined
\* the promise settle with the same outcome; a rejection rejects their Promise.all
\* and with it their ingest call.
ExtractSessionResume(s) ==
  /\ xpc[s] \in {"resolved", "rejected"}
  /\ xpc' = [xpc EXCEPT ![s] = "none"]
  /\ xval' = [xval EXCEPT ![s] = NoText]
  /\ extractionInFlight' = [extractionInFlight EXCEPT ![s] = FALSE]
  /\ IF xpc[s] = "resolved"
     THEN /\ extractionCache' = [extractionCache EXCEPT ![s] = xval[s]]
          /\ results' = [c \in Calls |->
                IF Waits(c, s)
                THEN [i \in DOMAIN results[c] |->
                        IF results[c][i] = NoText /\ BatchOf(csessions[c], cbatch[c])[i] = s
                        THEN xval[s] ELSE results[c][i]]
                ELSE results[c]]
          /\ UNCHANGED <<nFailed, cpc, cbatch, extractions>>
     ELSE /\ nFailed' = [nFailed EXCEPT ![s] = @ + 1]
          /\ cpc' = [c \in Calls |-> IF Waits(c, s) THEN "failed" ELSE cpc[c]]
          /\ results' = [c \in Calls |-> IF Waits(c, s) THEN <<>> ELSE results[c]]
          /\ cbatch' = [c \in Calls |-> IF Waits(c, s) THEN 0 ELSE cbatch[c]]
          /\ extractions' = [c \in Calls |-> IF Waits(c, s) THEN <<>> ELSE extractions[c]]
          /\ UNCHANGED extractionCache
  /\ UNCHANGED <<activeGlobalExtractions, extractionQueue, xattempt, nStarted,
                 csessions, ctag, embedded, eattempt, documentIds, overlapped,
                 storeVars, searchVars, lockVars, graphVars, pgVars, chunkVars, rerankVars>>

\* ingest resumes after Promise.all (part_002:230-232): it starts the next batch,
\* or after the last batch parses the extractions into the graph, chunks them
\* and sends the first embedding batch (part_002:238-301)
BatchDone(c) ==
  /\ cpc[c] = "extracting"
  /\ \A i \in DOMAIN results[c] : results[c][i] # NoText
  /\ LET ss == csessions[c]
         next == cbatch[c] + EXTRACTION_CONCURRENCY
         xs == extractions[c] \o results[c]
     IN /\ extractions' = [extractions EXCEPT ![c] = xs]
        /\ IF next < Len(ss)
           THEN LET st == StartBatch(IngestNow, BatchOf(ss, next), 1)
                IN /\ SetIngest(st)
                   /\ results' = [results EXCEPT ![c] = st.results]
                   /\ cbatch' = [cbatch EXCEPT ![c] = next]
                   /\ UNCHANGED <<cpc, graphs>>
           ELSE /\ results' = [results EXCEPT ![c] = <<>>]
                /\ cbatch' = [cbatch EXCEPT ![c] = 0]
                /\ graphs' = IF cdetached[c] THEN graphs
                             ELSE [graphs EXCEPT ![ctag[c]] = buildGraph(@, ss, xs, 1)]
                /\ cpc' = [cpc EXCEPT ![c] = "embedding"]
                /\ UNCHANGED <<activeGlobalExtractions, extractionQueue, xpc,
                               extractionInFlight, nStarted>>
  /\ UNCHANGED <<xattempt, xval, extractionCache, nFailed, csessions, ctag, embedded,
                 eattempt, documentIds, overlapped, searchEngine, snapshot, cdetached,
                 ingested, cleared, searchVars, lockVars, graphVars, pgVars, chunkVars, rerankVars>>

\* Faulty variant of the embedding loop: every embedded batch is added to the
\* index at once.
EmbedManySuccess_CommitEachBatch(c) ==
  LET t == ctag[c]
      n == Min(embedded[c] + EMBEDDING_BATCH_SIZE, Len(allChunks(c)))
      idx == addChunks(searchEngine[t], embeddedChunks(c, n))
  IN /\ cpc[c] = "embedding"
     /\ searchEngine' = [searchEngine EXCEPT ![t] = idx]
     /\ snapshot' = [snapshot EXCEPT ![t] = saveToCache(@, idx, graphs[t])]
     /\ ingested' = [ingested EXCEPT ![t].chunks = @ \cup {x.id : x \in idx}]
     /\ eattempt' = [eattempt EXCEPT ![c] = 0]
     /\ IF n < Len(allChunks(c))
        THEN /\ embedded' = [embedded EXCEPT ![c] = n]
             /\ UNCHANGED <<cpc, documentIds>>
        ELSE /\ embedded' = [embedded EXCEPT ![c] = 0]
             /\ documentIds' = [documentIds EXCEPT ![c] =
                   [j \in 1..n |-> embeddedChunks(c, n)[j].id]]
             /\ cpc' = [cpc EXCEPT ![c] = "done"]
     /\ UNCHANGED <<poolVars, cacheVars, csessions, ctag, cbatch, results, extractions,
                    overlapped, graphs, cdetached, cleared, searchVars, lockVars,
                    graphVars, pgVars, chunkVars, rerankVars>>

\* embedMany returns (part_002:301-327): the batch is kept in embeddedChunks and
\* the next batch is sent; after the last batch the chunks are added to the
\* index, the snapshot is written and the call returns (part_002:329-337)
EmbedManySuccess(c) ==
  LET t == ctag[c]
      n == Min(embedded[c] + EMBEDDING_BATCH_SIZE, Len(allChunks(c)))
      idx == addChunks(searchEngine[t], embeddedChunks(c, n))
  IN /\ cpc[c] = "embedding"
     /\ eattempt' = [eattempt EXCEPT ![c] = 0]
     /\ IF n < Len(allChunks(c))
        THEN /\ embedded' = [embedded EXCEPT ![c] = n]
             /\ UNCHANGED <<cpc, documentIds, searchEngine, snapshot, ingested>>
        ELSE /\ embedded' = [embedded EXCEPT ![c] = 0]
             /\ searchEngine' = [searchEngine EXCEPT ![t] = idx]
             /\ snapshot' = [snapshot EXCEPT ![t] = saveToCache(@, idx, graphs[t])]
             /\ ingested' = [ingested EXCEPT ![t] =
                   [chunks |-> @.chunks \cup {embeddedChunks(c, n)[j].id : j \in 1..n},
                    names |-> @.names \cup NodeNames(graphs[t])]]
             /\ documentIds' = [documentIds EXCEPT ![c] =
                   [j \in 1..n |-> embeddedChunks(c, n)[j].id]]
             /\ cpc' = [cpc EXCEPT ![c] = "done"]
     /\ UNCHANGED <<poolVars, cacheVars, csessions, ctag, cbatch, results, extractions,
                    overlapped, graphs, cdetached, cleared, searchVars, lockVars,
                    graphVars, pgVars, chunkVars, rerankVars>>

\* embedMany returns for the last batch, the chunks are added to the index and
\* a writeFileSync of saveToCache throws (part_002:329-330, 115-131): nothing
\* catches it, so the call is rejected.  `file` is the file whose write fails;
\* search.json is written before graph.json.
SaveToCacheFailure(c, file) ==
  LET t == ctag[c]
      n == Min(embedded[c] + EMBEDDING_BATCH_SIZE, Len(allChunks(c)))
      idx == addChunks(searchEngine[t], embeddedChunks(c, n))
  IN /\ cpc[c] = "embedding"
     /\ n >= Len(allChunks(c))
     /\ file = "graph.json" => nodeCount(graphs[t]) > 0
     /\ eattempt' = [eattempt EXCEPT ![c] = 0]
     /\ embedded' = [embedded EXCEPT ![c] = 0]
     /\ searchEngine' = [searchEngine EXCEPT ![t] = idx]
     /\ snapshot' = IF file = "graph.json"
                    THEN [snapshot EXCEPT ![t] = [@ EXCEPT !.saved = TRUE, !.chunks = idx]]
                    ELSE snapshot
     /\ cpc' = [cpc EXCEPT ![c] = "failed"]
     /\ UNCHANGED <<poolVars, cacheVars, csessions, ctag, cbatch, results, extractions,
                    documentIds, ingested, overlapped, graphs, cdetached, cleared,
                    searchVars, lockVars, graphVars, pgVars, chunkVars, rerankVars>>

\* Faulty variant of EmbedManyFailure: the batch is sent a fourth time.
EmbedManyFailure_OneMore(c) ==
  /\ cpc[c] = "embedding"
  /\ IF eattempt[c] >= lastEmbedAttempt + 1
     THEN /\ cpc' = [cpc EXCEPT ![c] = "failed"]
          /\ eattempt' = eattempt
          /\ embedded' = [embedded EXCEPT ![c] = 0]
          /\ extractions' = [extractions EXCEPT ![c] = <<>>]
     ELSE /\ eattempt' = [eattempt EXCEPT ![c] = @ + 1]
          /\ UNCHANGED <<cpc, embedded, extractions>>
  /\ UNCHANGED <<poolVars, cacheVars, csessions, ctag, cbatch, results, documentIds,
                 overlapped, storeVars, searchVars, lockVars, graphVars, pgVars, chunkVars, rerankVars>>

\* embedMany throws (part_002:304-307): rethrown on the last attempt, else the
\* batch is sent again after the delay
EmbedManyFailure(c) ==
  /\ cpc[c] = "embedding"
  /\ IF eattempt[c] >= lastEmbedAttempt
     THEN /\ cpc' = [cpc EXCEPT ![c] = "failed"]
          /\ eattempt' = eattempt
          /\ embedded' = [embedded EXCEPT ![c] = 0]
          /\ extractions' = [extractions EXCEPT ![c] = <<>>]
     ELSE /\ eattempt' = [eattempt EXCEPT ![c] = @ + 1]
          /\ UNCHANGED <<cpc, embedded, extractions>>
  /\ UNCHANGED <<poolVars, cacheVars, csessions, ctag, cbatch, results, documentIds,
                 overlapped, storeVars, searchVars, lockVars, graphVars, pgVars, chunkVars, rerankVars>>

\* ---- search (part_002 352-433) ----
\* Positions of the search call:
\*   idle       not called yet
\*   embedding  inside the retry loop of the query embedding (part_002:362-371)
\*   reranking  suspended at `await rerankResults(...)` (part_002:386)
\*   returned   returned sresult
\*   threw      rejected

\* The queries of the model
QueryInputs == {<<"tell", Blank, "me", Blank, "about", Blank, "Alice">>, <<"hello">>}

\* `options.limit || 10` (part_002:373)
limitOf(given) == IF given = 0 THEN DefaultLimit ELSE given

Max(a, b) == IF a > b THEN a ELSE b

\* The hybrid score of a chunk for a query, in thousandths: the query "hello"
\* ranks the chunks of the index in the opposite order.
HybridScore(query, chunk) ==
  LET rank == 100 * chunk.id[2] + 10 * chunk.id[3]
  IN IF query = <<"hello">> THEN rank ELSE 900 - rank

\* HybridSearchEngine.search(tag, embedding, query, n): the n chunks of the
\* best score, best first
hybridSearch(idx, query, n) ==
  LET result(x) == [id |-> x.id, content |-> x.content, by |-> x.by, _type |-> "chunk",
                    score |-> HybridScore(query, x), rerankScore |-> NoRerankScore]
      RECURSIVE best(_, _)
      best(rest, k) ==
        IF rest = {} \/ k <= 0 THEN <<>>
        ELSE LET top == CHOOSE x \in rest :
                          \A y \in rest : HybridScore(query, y) <= HybridScore(query, x)
             IN <<result(top)>> \o best(rest \ {top}, k - 1)
  IN best(idx, n)

\* Faulty variant of combinedResults: the pseudo-results come before the chunks.
combinedResults_GraphFirst(finalChunks, g, query) ==
  LET queryEntities == findEntitiesInQuery(g, query)
      graphContext == getContext(g, queryEntities, 2)
      entityResult(entity) ==
        [content |-> entity.summary, _type |-> "entity", name |-> entity.name,
         entityType |-> entity.type, score |-> 0, vectorScore |-> 0, bm25Score |-> 0,
         sessionId |-> <<>>, chunkIndex |-> -1]
      relResult(rel) ==
        [content |-> rel.source \o <<Blank>> \o rel.relation \o <<Blank>> \o rel.target,
         _type |-> "relationship", source |-> rel.source, target |-> rel.target,
         relation |-> rel.relation, date |-> rel.date, score |-> 0, vectorScore |-> 0,
         bm25Score |-> 0, sessionId |-> <<>>, chunkIndex |-> -1]
  IN IF nodeCount(g) > 0 /\ Len(queryEntities) > 0
     THEN [i \in DOMAIN graphContext.entities |-> entityResult(graphContext.entities[i])]
          \o [i \in DOMAIN graphContext.relationships |->
                relResult(graphContext.relationships[i])]
          \o finalChunks
     ELSE finalChunks

\* combinedResults (part_002:389-432): the chunks, then a pseudo-result for each
\* entity and each relationship of the 2-hop context of the entities the
\* query names
combinedResults(finalChunks, g, query) ==
  LET queryEntities == findEntitiesInQuery(g, query)
      graphContext == getContext(g, queryEntities, 2)
      entityResult(entity) ==
        [content |-> entity.summary, _type |-> "entity", name |-> entity.name,
         entityType |-> entity.type, score |-> 0, vectorScore |-> 0, bm25Score |-> 0,
         sessionId |-> <<>>, chunkIndex |-> -1]
      relResult(rel) ==
        [content |-> rel.source \o <<Blank>> \o rel.relation \o <<Blank>> \o rel.target,
         _type |-> "relationship", source |-> rel.source, target |-> rel.target,
         relation |-> rel.relation, date |-> rel.date, score |-> 0, vectorScore |-> 0,
         bm25Score |-> 0, sessionId |-> <<>>, chunkIndex |-> -1]
  IN IF nodeCount(g) > 0 /\ Len(queryEntities) > 0
     THEN finalChunks
          \o [i \in DOMAIN graphContext.entities |-> entityResult(graphContext.entities[i])]
          \o [i \in DOMAIN graphContext.relationships |->
                relResult(graphContext.relationships[i])]
     ELSE finalChunks

\* search(query, options) up to `await embed(...)` (part_002:352-365): the
\* snapshot is loaded when the index of the tag is empty (loadFromCache,
\* part_002:133-155; EntityGraph.load replaces the content of the graph)
SearchStart(t, query, given) ==
  /\ spc \in {"idle", "returned", "threw"}
  /\ rpc = "idle"
  /\ spc' = "embedding"
  /\ stag' = t
  /\ squery' = query
  /\ slimit' = given
  /\ sattempt' = 0
  /\ overfetchLimit' = 0
  /\ hybridResults' = <<>>
  /\ sresult' = NoResult
  /\ shistory' = [NoHistory EXCEPT !.clean = cleared[t]]
  /\ IF ~hasData(searchEngine[t]) /\ snapshot[t].saved
     THEN /\ searchEngine' = [searchEngine EXCEPT ![t] = snapshot[t].chunks]
          /\ graphs' = [graphs EXCEPT ![t] = IF snapshot[t].graphSaved
                                             THEN load(snapshot[t].graph) ELSE @]
     ELSE UNCHANGED <<searchEngine, graphs>>
  /\ UNCHANGED <<snapshot, cdetached, ingested, cleared, poolVars, cacheVars, callVars,
                 lockVars, graphVars, pgVars, chunkVars, rerankVars>>

\* Faulty variant of SearchEmbedded: the reranker is asked whenever the index
\* gave a result.
SearchEmbedded_AlwaysRerank ==
  LET limit == limitOf(slimit)
      overfetch == Max(limit, RERANK_OVERFETCH)
      hybrid == hybridSearch(searchEngine[stag], squery, overfetch)
  IN /\ spc = "embedding"
     /\ sattempt' = 0
     /\ overfetchLimit' = overfetch
     /\ hybridResults' = hybrid
     /\ IF Len(hybrid) > 0
        THEN /\ rresults' = hybrid
             /\ rtopK' = limit
             /\ rattempt' = 0
             /\ rfailed' = 0
             /\ rpc' = "calling" /\ rout' = <<>> /\ rcalls' = 1
             /\ spc' = "reranking"
             /\ sresult' = sresult
             /\ shistory' = [shistory EXCEPT !.graphAtRead = graphs[stag],
                                             !.reranked = TRUE]
        ELSE /\ spc' = "returned"
             /\ sresult' = combinedResults(hybrid, graphs[stag], squery)
             /\ shistory' = [shistory EXCEPT !.graphAtRead = graphs[stag]]
             /\ UNCHANGED rerankVars
     /\ UNCHANGED <<stag, squery, slimit, storeVars, poolVars, cacheVars, callVars,
                    lockVars, graphVars, pgVars, chunkVars>>

\* embed returns (part_002:365-387): the search reads the index; with more
\* than `limit` results it calls the reranker and waits for it, else it goes
\* on to the graph and returns (part_002:389-432)
SearchEmbedded ==
  LET limit == limitOf(slimit)
      overfetch == Max(limit, RERANK_OVERFETCH)
      hybrid == hybridSearch(searchEngine[stag], squery, overfetch)
  IN /\ spc = "embedding"
     /\ sattempt' = 0
     /\ overfetchLimit' = overfetch
     /\ hybridResults' = hybrid
     /\ IF Len(hybrid) > limit
        THEN /\ rerankResults(hybrid, limit)
             /\ spc' = "reranking"
             /\ sresult' = sresult
             /\ shistory' = [shistory EXCEPT !.graphAtRead = graphs[stag],
                                             !.reranked = TRUE]
        ELSE /\ spc' = "returned"
             /\ sresult' = combinedResults(hybrid, graphs[stag], squery)
             /\ shistory' = [shistory EXCEPT !.graphAtRead = graphs[stag]]
             /\ UNCHANGED rerankVars
     /\ UNCHANGED <<stag, squery, slimit, storeVars, poolVars, cacheVars, callVars,
                    lockVars, graphVars, pgVars, chunkVars>>

\* rerankResults has returned (part_002:386-432): the search reads the graph
\* and returns
SearchReranked ==
  /\ spc = "reranking"
  /\ rpc = "returned"
  /\ rpc' = "idle"
  /\ spc' = "returned"
  /\ sresult' = combinedResults(rout, graphs[stag], squery)
  /\ UNCHANGED <<stag, squery, slimit, sattempt, overfetchLimit, hybridResults, shistory,
                 rresults, rtopK, rattempt, rout, rcalls, rfailed,
                 storeVars, poolVars, cacheVars, callVars, lockVars, graphVars, pgVars, chunkVars>>

\* embed throws (part_002:367-370): rethrown on the last attempt, else the query
\* is sent again after the delay
SearchEmbedFailure ==
  /\ spc = "embedding"
  /\ IF sattempt >= lastEmbedAttempt
     THEN spc' = "threw" /\ sattempt' = sattempt
     ELSE spc' = spc /\ sattempt' = sattempt + 1
  /\ UNCHANGED <<stag, squery, slimit, overfetchLimit, hybridResults, sresult, shistory,
                 storeVars, poolVars, cacheVars, callVars, lockVars, graphVars, pgVars, chunkVars, rerankVars>>

\* Faulty variant of clear: it also empties the extraction cache.
Clear_Evicting(t) ==
  /\ searchEngine' = [searchEngine EXCEPT ![t] = {}]
  /\ graphs' = [graphs EXCEPT ![t] = EmptyGraph]
  /\ cdetached' = [c \in Calls |-> cdetached[c] \/ (Active(c) /\ ctag[c] = t)]
  /\ ingested' = [ingested EXCEPT ![t] = NoneIngested]
  /\ cleared' = [cleared EXCEPT ![t] = \A c \in Calls : ~(Active(c) /\ ctag[c] = t)]
  /\ shistory' = IF spc = "reranking" /\ stag = t
                 THEN [shistory EXCEPT !.clearedMid = TRUE] ELSE shistory
  /\ extractionCache' = [s \in Sessions |-> NoText]
  /\ UNCHANGED <<snapshot, spc, stag, squery, slimit, sattempt, overfetchLimit,
                 hybridResults, sresult, poolVars, extractionInFlight, nStarted, nFailed,
                 callVars, lockVars, graphVars, pgVars, chunkVars, rerankVars>>

\* clear(containerTag) (part_002:435-440), which has no await: the index of the
\* tag is emptied, its graph is emptied and taken out of `graphs`.  An ingest
\* in flight keeps the graph object it got at part_002:169.
Clear(t) ==
  /\ searchEngine' = [searchEngine EXCEPT ![t] = {}]
  /\ graphs' = [graphs EXCEPT ![t] = EmptyGraph]
  /\ cdetached' = [c \in Calls |-> cdetached[c] \/ (Active(c) /\ ctag[c] = t)]
  /\ ingested' = [ingested EXCEPT ![t] = NoneIngested]
  /\ cleared' = [cleared EXCEPT ![t] = \A c \in Calls : ~(Active(c) /\ ctag[c] = t)]
  /\ shistory' = IF spc = "reranking" /\ stag = t
                 THEN [shistory EXCEPT !.clearedMid = TRUE] ELSE shistory
  /\ UNCHANGED <<snapshot, spc, stag, squery, slimit, sattempt, overfetchLimit,
                 hybridResults, sresult, poolVars, cacheVars, callVars, lockVars,
                 graphVars, pgVars, chunkVars, rerankVars>>

\* The process ends while no call is in progress and a new provider is
\* constructed (part_002:76-83): the fields are empty, the files are kept.
Restart ==
  /\ \A c \in Calls : ~Active(c)
  /\ \A s \in Sessions : xpc[s] = "none"
  /\ spc \in {"idle", "returned", "threw"}
  /\ rpc = "idle"
  /\ searchEngine' = [t \in Tags |-> {}]
  /\ graphs' = [t \in Tags |-> EmptyGraph]
  /\ extractionCache' = [s \in Sessions |-> NoText]
  /\ UNCHANGED <<snapshot, cdetached, ingested, cleared, extractionInFlight, nStarted,
                 nFailed, poolVars, callVars, searchVars, lockVars, graphVars, pgVars, chunkVars, rerankVars>>

\* The steps of ingest calls given session lists from `lists` and tags from `tags`
IngestSteps(lists, tags) ==
  \/ \E c \in Calls, ss \in lists, t \in tags : IngestStart(c, ss, t)
  \/ \E s \in Sessions : DoExtractResume(s)
  \/ \E s \in Sessions, v \in Texts : LLMSuccess(s, v)
  \/ \E s \in Sessions : LLMFailure(s)
  \/ \E s \in Sessions : RetryTimer(s)
  \/ \E s \in Sessions : DoExtractFinally(s)
  \/ \E s \in Sessions : ExtractSessionResume(s)
  \/ \E c \in Calls : BatchDone(c)
  \/ \E c \in Calls : EmbedManySuccess(c)
  \/ \E c \in Calls : EmbedManyFailure(c)

\* The steps of search calls with the given tags, queries and limits, the
\* reranker LLM failing as in `failures` or answering as in `replies`
SearchSteps(tags, queries, limits, failures, replies) ==
  \/ \E t \in tags, query \in queries, given \in limits : SearchStart(t, query, given)
  \/ SearchEmbedded
  \/ SearchEmbedFailure
  \/ \E reply \in failures : RerankFailure(reply) /\ RerankFrame
  \/ \E reply \in replies : RerankSuccess(reply) /\ RerankFrame
  \/ RerankTimer /\ RerankFrame
  \/ SearchReranked

IngestNext == IngestSteps(SessionLists, Tags)

IngestSearchNext ==
  \/ IngestSteps(ShortLists, Tags)
  \/ SearchSteps(Tags, {<<"hello">>}, {0}, {[kind |-> "throws"]},
                 {[kind |-> "scores", scores |-> <<[index |-> 1, score |-> 7]>>]})

\* Ingest calls, searches, clear and restarts on one provider
StoreNext ==
  \/ IngestSteps({<<1>>, <<2>>}, {1})
  \/ SearchSteps({1}, {<<"tell", Blank, "me", Blank, "about", Blank, "Alice">>}, {0},
                 {[kind |-> "noBlock"]},
                 {[kind |-> "scores", scores |-> <<[index |-> 1, score |-> 7]>>]})
  \/ Clear(1)
  \/ Restart

\* Ingest calls under two tags and clear on one provider
CacheNext ==
  \/ IngestSteps({<<1>>, <<1, 2>>}, {1, 2})
  \/ \E t \in {1, 2} : Clear(t)

\* Ingest calls on one tag whose snapshot writes may fail
SnapshotNext ==
  \/ IngestSteps({<<1>>, <<2>>, <<1, 2>>}, {1})
  \/ \E c \in Calls, file \in {"search.json", "graph.json"} : SaveToCacheFailure(c, file)

\* Ingest calls and searches of any query and limit on one tag; the
\* extraction LLM always answers
SearchNext ==
  \/ \E c \in Calls, ss \in {<<1>>, <<2>>} : IngestStart(c, ss, 1)
  \/ \E s \in Sessions : DoExtractResume(s)
  \/ \E s \in Sessions, v \in Texts : LLMSuccess(s, v)
  \/ \E s \in Sessions : DoExtractFinally(s)
  \/ \E s \in Sessions : ExtractSessionResume(s)
  \/ \E c \in Calls : BatchDone(c)
  \/ \E c \in Calls : EmbedManySuccess(c)
  \/ \E c \in Calls : EmbedManyFailure(c)
  \/ SearchSteps({1}, QueryInputs, {0, RERANK_OVERFETCH, RERANK_OVERFETCH + 1}, LLMFailures,
                 {[kind |-> "scores", scores |-> <<[index |-> 1, score |-> 7]>>]})

\* ------------------------------------------------------------------------
\* Specifications
\* ------------------------------------------------------------------------
\* Liveness of the lock is checked for calls on these tags.
LiveTags == {1, 2}

LockNextLive ==
  \/ \E p \in Procs, t \in LiveTags : readLock(p, t)
  \/ \E p \in Procs, t \in LiveTags : writeLock(p, t)
  \/ \E p \in Procs : readUnlock(p)
  \/ \E p \in Procs : writeUnlock(p)
  \/ RunMicrotask

\* Fairness the event loop and the claim's proviso give: queued continuations run,
\* and every holder eventually calls its unlock.  Nothing forces a new call.
LockFairness ==
  /\ WF_vars(RunMicrotask)
  /\ \A p \in Procs : WF_vars(readUnlock(p)) /\ WF_vars(writeUnlock(p))

LLMAnswer(s) == LLMFailure(s) \/ \E v \in Texts : LLMSuccess(s, v)

\* Every step of a started task is eventually taken: continuations run, the LLM
\* answers (with a text or an error) and timers fire.  Starting a task is not forced.
PoolFairness ==
  \A s \in Sessions :
    /\ WF_vars(DoExtractResume(s))
    /\ WF_vars(LLMAnswer(s))
    /\ WF_vars(RetryTimer(s))
    /\ WF_vars(DoExtractFinally(s))

\* The state after construction
Init == LockInit /\ PoolInit /\ IngestInit /\ GraphInit /\ RerankInit /\ PgInit /\ ChunkInit

\* ContainerLock used by any number of callers
SpecLock == Init /\ [][LockNext]_vars
SpecLockFair == Init /\ [][LockNextLive]_vars /\ LockFairness

\* The extraction pool used by doExtract tasks started at any time
SpecPool == Init /\ [][PoolNext]_vars
SpecPoolFair == Init /\ [][PoolNext]_vars /\ PoolFairness

\* Two ingest calls on one provider
SpecIngest == Init /\ [][IngestNext]_vars

\* Ingest calls, searches, clear and restarts on one provider
SpecStore == Init /\ [][StoreNext]_vars

\* Ingest calls and searches of any query and limit on one tag
SpecSearch == Init /\ [][SearchNext]_vars

\* Two ingest calls and searches on one provider
SpecIngestSearch == Init /\ [][IngestSearchNext]_vars

\* An EntityGraph used directly by a caller
SpecGraph == Init /\ [][GraphNext]_vars
\* The graph with its snapshots, and its traversal in either store
ContextNext ==
  \/ \E e \in EntityInputs, sessionId \in 1..2 :
       /\ e.name \in {<<"Alice">>, <<Blank, "Acme">>}
       /\ e.summary \in {<<"x">>, <<"x", "y">>}
       /\ GraphAddEntity(e.name, <<"Person">>, e.summary, sessionId)
  \/ \E edge \in EdgeInputs : edge.sessionId = 1 /\ GraphAddRelationship(edge)
  \/ \E data \in SnapshotInputs : GraphLoad(data)
  \/ GraphRoundTrip
  \/ \E entityNames \in SeedInputs, maxHops \in HopInputs :
       GraphGetContext(entityNames, maxHops)
  \/ \E containerTag \in Tags, entityNames \in SeedInputs, maxHops \in HopInputs,
        ord \in RowOrders :
       GraphPgGetContext(containerTag, entityNames, maxHops, ord)

SpecContext == Init /\ [][ContextNext]_vars
SpecChunk == Init /\ [][ChunkNext]_vars
SpecPg == Init /\ [][PgNext]_vars
SpecSnapshot == Init /\ [][SnapshotNext]_vars
SpecCache == Init /\ [][CacheNext]_vars

\* rerankResults called directly
SpecRerank == Init /\ [][RerankNext]_vars

\* ------------------------------------------------------------------------
\* Claims about ContainerLock
\* ------------------------------------------------------------------------

\* C1: per tag at most one caller holds the write lock; while one does, no caller
\* holds the read lock and the reader count is zero (writeLock ends only with no
\* reader counted); the reader count is the number of callers holding the read lock.
C1_MutualExclusion ==
  \A t \in Tags :
    /\ Cardinality(WriteHolders(t)) <= 1
    /\ WriteHolders(t) # {} => (ReadHolders(t) = {} /\ readerCount[t] = 0)
    /\ readerCount[t] = Cardinality(ReadHolders(t))

\* C1 witness: a writer holds a tag on which a reader and another writer are suspended.
C1_Witness ==
  \E t \in Tags, w, r, w2 \in Procs :
    /\ lpc[w] = "writing" /\ ltag[w] = t
    /\ lpc[r] = "rAwait" /\ ltag[r] = t
    /\ lpc[w2] = "wAwait" /\ ltag[w2] = t

\* C2 as claimed: a reader that holds the lock has no writer left that was active
\* or waiting (inside writeLock) on its tag when its readLock was issued.
C2_WriterPreference ==
  \A p \in Procs : lpc[p] \in {"rDone", "reading"} => ahead[p] = {}

\* C2 amended: the same, except for writers that had already been woken by a
\* writeUnlock (continuation queued, not yet run) when the readLock was issued.
C2_WriterPreferenceAmended ==
  \A p \in Procs : lpc[p] \in {"rDone", "reading"} => ahead[p] \ aheadWoken[p] = {}

\* C2 witness: a reader is suspended behind a writer that still waits for readers to drain.
C2_Witness ==
  \E r, w \in Procs :
    /\ lpc[r] = "rAwait" /\ lpc[w] = "wDrain" /\ ltag[r] = ltag[w]
    /\ w \in ahead[r] /\ r \notin SeqToSet(microtasks)

InLockCall(p) == lpc[p] \in {"rAwait", "rDone", "wAwait", "wDrain", "wDone"}
Returned(p) == lpc[p] \in {"reading", "writing"}

\* C3 as claimed: every readLock and writeLock call eventually returns.
C3_LockLiveness ==
  \A p \in Procs : InLockCall(p) ~> Returned(p)

\* C3 amended: a call on tag t eventually returns unless writeLock calls keep
\* being issued on t for ever.  A caller leaves InLockCall only by returning
\* (to "reading" or "writing"), so "every call of p on t returns" is stated as
\* "p is again and again not inside a call on t".
C3_LockLivenessAmended ==
  \A p \in Procs : \A t \in LiveTags :
    \/ []<>~(InLockCall(p) /\ ltag[p] = t)
    \/ []<><<\E q \in Procs : writeLock(q, t)>>_vars

\* C3 witness: a writer that had to wait for readers to drain has returned while
\* another caller is still suspended on its promise.
C3_Witness ==
  \E w, r \in Procs :
    /\ lpc[w] = "writing" /\ lpc[r] \in {"rAwait", "wAwait"} /\ ltag[r] = ltag[w]
    /\ r \in SeqToSet(promiseWaiters[ltag[w]])

LockTagState(t) == <<writerPromise[t], promiseWaiters[t], readerCount[t], readerDrain[t]>>

\* C4: a step changes the writer, reader-count and drain state of a tag only when it
\* is a step of a call on that tag, and whether a request on a tag suspends depends
\* on that tag alone: a readLock suspends iff the tag has a writer promise, a
\* writeLock iff it has a writer promise or a counted reader.
C4_PerTag ==
  [][ /\ \A u \in Tags :
           LockTagState(u)' # LockTagState(u) =>
             \E p \in Procs :
               /\ (IF lpc[p] = "idle" THEN ltag'[p] ELSE ltag[p]) = u
               /\ lpc'[p] # lpc[p] \/ (microtasks # <<>> /\ p = Head(microtasks))
               /\ \A v \in Tags \ {u} : LockTagState(v)' = LockTagState(v)
      /\ \A p \in Procs :
           (lpc[p] = "idle" /\ lpc'[p] # "idle") =>
             LET t == ltag'[p] IN
               /\ lpc'[p] = "rAwait" <=> (lpc'[p] \in {"rAwait", "rDone"} /\ writerPromise[t])
               /\ lpc'[p] = "wAwait" <=> (lpc'[p] \in {"wAwait", "wDrain", "wDone"} /\ writerPromise[t])
               /\ lpc'[p] = "wDrain" <=> (lpc'[p] \in {"wAwait", "wDrain", "wDone"}
                                            /\ ~writerPromise[t] /\ readerCount[t] > 0)
    ]_vars

\* C4 witness: a writer holds tag a with a caller suspended on it while another
\* caller holds a different tag b.
C4_Witness ==
  \E a, b \in Tags, w, s, h \in Procs :
    /\ a # b
    /\ lpc[w] = "writing" /\ ltag[w] = a
    /\ lpc[s] \in {"rAwait", "wAwait"} /\ ltag[s] = a /\ s \in SeqToSet(promiseWaiters[a])
    /\ lpc[h] \in {"reading", "writing"} /\ ltag[h] = b

\* ------------------------------------------------------------------------
\* Claims about the extraction pool
\* ------------------------------------------------------------------------
SlotHolders == {s \in Sessions : HoldsSlot(s)}
IsPrefix(a, b) == Len(a) <= Len(b) /\ SubSeq(b, 1, Len(a)) = a

\* C5: the number of granted and not yet released slots, and the counter
\* activeGlobalExtractions, stay between 0 and MAX_GLOBAL_EXTRACTIONS.
C5_PoolCap ==
  /\ activeGlobalExtractions \in 0..MAX_GLOBAL_EXTRACTIONS
  /\ Cardinality(SlotHolders) <= MAX_GLOBAL_EXTRACTIONS

\* C5 witness: the pool is full, a caller is suspended, and a further doExtract arrives next.
C5_Witness ==
  /\ activeGlobalExtractions = MAX_GLOBAL_EXTRACTIONS
  /\ extractionQueue # <<>>
  /\ \E s \in Sessions : xpc[s] = "none"

\* C6: callers are suspended only when the pool is full and queue up in order of
\* arrival; a release hands its slot to the caller queued longest, one per
\* release; nobody gets a slot directly while a caller is queued.
C6_PoolFifo ==
  /\ [](extractionQueue # <<>> => activeGlobalExtractions = MAX_GLOBAL_EXTRACTIONS)
  /\ [][ /\ \A s \in Sessions :
              (xpc[s] # "granted" /\ xpc'[s] = "granted") =>
                IF xpc[s] = "queued"
                THEN extractionQueue # <<>> /\ s = Head(extractionQueue)
                     /\ extractionQueue' = Tail(extractionQueue)
                ELSE extractionQueue = <<>>
         /\ extractionQueue' # extractionQueue =>
              \/ extractionQueue # <<>> /\ extractionQueue' = Tail(extractionQueue)
              \/ /\ IsPrefix(extractionQueue, extractionQueue')
                 /\ \A i \in (Len(extractionQueue) + 1)..Len(extractionQueue') :
                      xpc[extractionQueue'[i]] = "none"
         /\ \A s \in Sessions :
              (xpc[s] \in {"returned", "threw"} /\ xpc'[s] \in {"resolved", "rejected"}
                 /\ extractionQueue # <<>>) =>
                xpc'[Head(extractionQueue)] = "granted"
     ]_vars

\* C6 witness: the pool is full and two callers are queued, so the order matters.
C6_Witness ==
  /\ activeGlobalExtractions = MAX_GLOBAL_EXTRACTIONS
  /\ Len(extractionQueue) >= 2

\* C7: the counter equals the number of doExtract tasks between their grant and
\* their finally block (each releases exactly once, on return and on throw), and
\* when no task is under way the counter is 0 and the queue is empty.
C7_NoSlotLeak ==
  /\ activeGlobalExtractions = Cardinality(SlotHolders)
  /\ (\A s \in Sessions : ~TaskLive(s)) =>
       (activeGlobalExtractions = 0 /\ extractionQueue = <<>>)

\* C7 witness: an extraction that threw has run its finally block and nothing is under way.
C7_Witness ==
  /\ \E s \in Sessions : xpc[s] = "rejected"
  /\ \E s \in Sessions : xpc[s] = "resolved"
  /\ \A s \in Sessions : ~TaskLive(s)

\* C8: every caller queued in acquireExtractionSlot is eventually resumed.
C8_PoolLiveness ==
  \A s \in Sessions : (xpc[s] = "queued") ~> (xpc[s] = "granted")

\* C8 witness: a caller is queued behind an extraction that is retrying.
C8_Witness ==
  \E s, h \in Sessions : xpc[s] = "queued" /\ xpc[h] = "backoff" /\ xattempt[h] > 0

\* ------------------------------------------------------------------------
\* Claims about ingest
\* ------------------------------------------------------------------------
SessionsOf(c) == SeqToSet(csessions[c])

\* The extraction strings call c has received so far, with their sessions
Received(c) ==
  {<<csessions[c][i], extractions[c][i]>> : i \in DOMAIN extractions[c]}
  \cup {<<BatchOf(csessions[c], cbatch[c])[i], results[c][i]>> :
          i \in {j \in DOMAIN results[c] : results[c][j] # NoText}}

\* The document ids of session s that call c returned
IdsOf(c, s) == {documentIds[c][j] : j \in {k \in DOMAIN documentIds[c] : documentIds[c][k][2] = s}}

\* Every caller receives the same string for a session, the cached one, and a
\* cached string never changes
SameStrings ==
  /\ [](\A c, d \in Calls : \A x \in Received(c) : \A y \in Received(d) :
          x[1] = y[1] => (x[2] = y[2] /\ x[2] = extractionCache[x[1]]))
  /\ [][\A s \in Sessions :
          extractionCache[s] # NoText => extractionCache'[s] = extractionCache[s]]_vars

\* Two finished ingests under one tag return the same document ids for a session
\* they share, and the same documentIds when their session lists are equal
SameDocumentIds ==
  \A c, d \in Calls :
    (cpc[c] = "done" /\ cpc[d] = "done" /\ ctag[c] = ctag[d]) =>
      /\ \A s \in SessionsOf(c) \cap SessionsOf(d) : IdsOf(c, s) = IdsOf(d, s)
      /\ csessions[c] = csessions[d] => documentIds[c] = documentIds[d]

\* C9 as claimed: when two ingest calls that overlap in time contain the same
\* session, extractMemories is started exactly once for it; every caller
\* receives the identical string; same tag and session give the same documentIds.
C9_ExactDedup ==
  /\ [](\A c, d \in Calls : \A s \in SessionsOf(c) \cap SessionsOf(d) :
          (c # d /\ {c, d} \in overlapped) => nStarted[s] <= 1)
  /\ SameStrings
  /\ []SameDocumentIds

\* C9 amended: an extraction of a session is started only when none is in flight
\* and none is cached, so a further one is started only after every earlier one
\* has failed, and at most one ever succeeds; every caller receives the identical
\* string; same tag and session give the same documentIds.
C9_ExactDedupAmended ==
  /\ [](\A s \in Sessions :
          /\ nStarted[s] <= nFailed[s] + 1
          /\ (extractionInFlight[s] \/ extractionCache[s] # NoText)
               => nStarted[s] = nFailed[s] + 1
          /\ ~(extractionInFlight[s] /\ extractionCache[s] # NoText)
          /\ extractionInFlight[s] <=> xpc[s] # "none")
  /\ SameStrings
  /\ []SameDocumentIds

\* C9 witness: call A holds session 1 twice in one batch, call B overlaps it
\* under the same tag, and both await the one extraction of session 1, which
\* has just returned.
C9_Witness ==
  /\ csessions["A"] = <<1, 1>> /\ results["A"] = <<NoText, NoText>>
  /\ Waits("B", 1) /\ ctag["A"] = ctag["B"]
  /\ {"A", "B"} \in overlapped
  /\ nStarted[1] = 1 /\ xpc[1] = "resolved"

\* The calls whose chunks a search can see: in the index, in the snapshot a
\* search may load, or in what the last search read
Visible ==
  UNION {searchEngine[t] \cup snapshot[t].chunks : t \in Tags}
  \cup {[id |-> sresult[i].id, content |-> sresult[i].content, by |-> sresult[i].by] :
          i \in {j \in DOMAIN sresult : sresult[j]._type = "chunk"}}

\* C10: a chunk made by an ingest call is in the index (or the snapshot, or a
\* search result) only when the call has returned, all its extractions and all
\* its embedding batches having succeeded; no chunk of a failed or unfinished
\* call is visible.
C10_CommitOrdering ==
  \A x \in Visible :
    /\ cpc[x.by] = "done"
    /\ Len(extractions[x.by]) = Len(csessions[x.by])
    /\ \A i \in DOMAIN extractions[x.by] : extractions[x.by][i] # NoText
    /\ x.id \in SeqToSet(documentIds[x.by])

\* C10 witness: a search has returned chunks of a tag on which one call has
\* committed while another has embedded its first batch and is at its last
\* attempt for the next one.
C10_Witness ==
  \E c, d \in Calls :
    /\ cpc[c] = "embedding" /\ embedded[c] > 0 /\ eattempt[c] = lastEmbedAttempt
    /\ cpc[d] = "done" /\ ctag[d] = ctag[c]
    /\ stag = ctag[c] /\ \E i \in DOMAIN sresult : sresult[i]._type = "chunk"

\* ------------------------------------------------------------------------
\* Claims about EntityGraph
\* ------------------------------------------------------------------------
\* The edges stored in the adjacency lists
\* C20: after any sequence of addRelationship calls, edgeCount equals the number
\* of distinct (source, relation, target) triples ever added; re-adding a triple
\* changes neither edgeCount nor any adjacency list; each stored edge is in the
\* adjacency lists of both its source and its target.
C20_EdgeKeyUniqueness ==
  /\ [](edgeCount(entityGraph) = Cardinality(everAdded))
  /\ [][\A edge \in EdgeInputs :
          (GraphAddRelationship(edge) /\ tripleOf(edge) \in everAdded)
          => /\ edgeCount(entityGraph') = edgeCount(entityGraph)
             /\ entityGraph'.adjacency = entityGraph.adjacency]_vars
  /\ [](\A i \in DOMAIN entityGraph.adjacency :
          \A j \in DOMAIN entityGraph.adjacency[i].v :
            LET edge == entityGraph.adjacency[i].v[j]
                Listed(name) == /\ MapHas(entityGraph.adjacency, name)
                                /\ SetHas(MapGet(entityGraph.adjacency, name), edge)
            IN /\ Listed(edge.source)
               /\ Listed(edge.target)
               /\ edgeKey(edge) \in entityGraph.edgeSet)

\* The first part of C20 for triples written without the pipe character
C20_PipeFree ==
  (\A tr \in everAdded : \A i \in 1..3 : \A j \in DOMAIN tr[i] : tr[i][j] # Pipe)
  => edgeCount(entityGraph) = Cardinality(everAdded)


\* C21: for any graph (cyclic ones and self-loops included), any seed list and
\* any maxHops, getContext returns at most 10 entities and at most 20
\* relationships (MAX_GRAPH_ENTITIES and MAX_GRAPH_RELATIONSHIPS here), no
\* entity name twice and no (source, relation, target) triple twice.
C21_TraversalCaps ==
  LET entities == gcontext.result.entities
      relationships == gcontext.result.relationships
  IN gcontext.called
     => /\ Len(entities) <= MAX_GRAPH_ENTITIES
        /\ Len(relationships) <= MAX_GRAPH_RELATIONSHIPS
        /\ \A i, j \in DOMAIN entities :
             entities[i].name = entities[j].name => i = j
        /\ \A i, j \in DOMAIN relationships :
             tripleOf(relationships[i]) = tripleOf(relationships[j]) => i = j

\* Reached: a traversal over a cycle and a self-loop that both caps cut short
C21_Witness ==
  /\ gcontext.called
  /\ gcontext.store = "EntityGraph"
  /\ Len(gcontext.result.entities) = MAX_GRAPH_ENTITIES
  /\ Len(gcontext.result.relationships) = MAX_GRAPH_RELATIONSHIPS
  /\ nodeCount(entityGraph) > MAX_GRAPH_ENTITIES
  /\ edgeCount(entityGraph) > MAX_GRAPH_RELATIONSHIPS
  /\ <<"Bob">> \o <<Pipe>> \o <<"works_at">> \o <<Pipe>> \o <<"Bob">>
       \in entityGraph.edgeSet

\* C23 as stated: for every graph G reachable by addEntity and addRelationship,
\* loading save(G) yields the same nodes, the same edge set, the same adjacency
\* and the same name index as G, so that findEntitiesInQuery and getContext
\* answer identically before and after.
C23_RoundTrip ==
  [][GraphRoundTrip
     => /\ entityGraph' = entityGraph
        /\ \A query \in QueryInputs :
             findEntitiesInQuery(entityGraph', query) = findEntitiesInQuery(entityGraph, query)
        /\ \A entityNames \in SeedInputs, maxHops \in HopInputs :
             getContext(entityGraph', entityNames, maxHops)
               = getContext(entityGraph, entityNames, maxHops)]_vars

\* C23 amended: loading save(G) yields the same nodes in the same order, the
\* same edge set, the same name index and, under every name, the same edges in
\* the adjacency list, though not always in the same order; findEntitiesInQuery
\* answers identically, and getContext returns the same entities and
\* relationships, as sets, whenever its result on G stays below both caps.
C23_RoundTripAmended ==
  [][GraphRoundTrip
     => LET Names(g) == {g.adjacency[i].k : i \in DOMAIN g.adjacency}
            Below(r) == /\ Len(r.entities) < MAX_GRAPH_ENTITIES
                        /\ Len(r.relationships) < MAX_GRAPH_RELATIONSHIPS
        IN /\ entityGraph'.nodes = entityGraph.nodes
           /\ entityGraph'.edgeSet = entityGraph.edgeSet
           /\ entityGraph'.nameIndex = entityGraph.nameIndex
           /\ Names(entityGraph') = Names(entityGraph)
           /\ \A name \in Names(entityGraph) :
                LET before == MapGet(entityGraph.adjacency, name)
                    after == MapGet(entityGraph'.adjacency, name)
                IN SeqToSet(after) = SeqToSet(before) /\ Len(after) = Len(before)
           /\ \A query \in QueryInputs :
                findEntitiesInQuery(entityGraph', query)
                  = findEntitiesInQuery(entityGraph, query)
           /\ \A entityNames \in SeedInputs, maxHops \in HopInputs :
                LET before == getContext(entityGraph, entityNames, maxHops)
                    after == getContext(entityGraph', entityNames, maxHops)
                IN Below(before)
                   => /\ SeqToSet(after.entities) = SeqToSet(before.entities)
                      /\ SeqToSet(after.relationships) = SeqToSet(before.relationships)
                      /\ Len(after.entities) = Len(before.entities)
                      /\ Len(after.relationships) = Len(before.relationships)]_vars

\* Reached: a snapshot written and read back for a graph with an entity of two
\* sessions, an indexed name and more edges than one adjacency list holds
C23_Witness ==
  /\ gcontext.store = "snapshot"
  /\ \E i \in DOMAIN entityGraph.nodes : Len(entityGraph.nodes[i].v.sessionIds) = 2
  /\ findEntitiesInQuery(entityGraph, <<"tell", Blank, "me", Blank, "about", Blank, "Alice">>)
       # <<>>
  /\ edgeCount(entityGraph) >= 2

\* C22: after any sequence of addEntity calls every stored node has a trimmed
\* non-empty name equal to its map key, a summary of at most 500 characters
\* (SummaryMax here) and a lowercase type; and addEntity with a name that is
\* empty after trimming changes nothing.
C22_EntityNodeInvariant ==
  /\ [](\A i \in DOMAIN entityGraph.nodes :
          LET node == entityGraph.nodes[i].v
          IN /\ node.name = entityGraph.nodes[i].k
             /\ trim(node.name) = node.name
             /\ node.name # <<>>
             /\ StrLength(node.summary) <= SummaryMax
             /\ toLowerCase(node.type) = node.type)
  /\ [][\A e \in EntityInputs :
          trim(e.name) = <<>> /\ GraphAddEntity(e.name, <<"Person">>, e.summary, 1)
          => entityGraph' = entityGraph]_vars

\* ------------------------------------------------------------------------
\* Claims about rerankResults
\* ------------------------------------------------------------------------
\* The rerankScore a score array gives to the result at position p of the
\* input (the array counts from 0): the score of the last entry of that index,
\* 0 when there is none.
ScoreGiven(scores, p) ==
  LET entries == {j \in DOMAIN scores : scores[j].index = p - 1}
  IN IF entries = {} THEN 0
     ELSE scores[CHOOSE j \in entries : \A l \in entries : l <= j].score

\* Position p of the input comes before position q in the reranked order.
Outranks(scores, p, q) ==
  \/ ScoreGiven(scores, p) > ScoreGiven(scores, q)
  \/ ScoreGiven(scores, p) = ScoreGiven(scores, q) /\ p < q

\* The step ends the call, with no further LLM call, and returns the rtopK
\* input results that rank highest under `scores`, highest first, each with
\* its rerankScore and score = rerankScore / 10.
ReturnsReranked(scores) ==
  LET pos(j) == CHOOSE p \in DOMAIN rresults : rresults[p].id = rout'[j].id
  IN /\ rpc' = "returned"
     /\ rcalls' = rcalls
     /\ Len(rout') = Min(rtopK, Len(rresults))
     /\ \A j \in DOMAIN rout' :
          /\ \E p \in DOMAIN rresults : rresults[p].id = rout'[j].id
          /\ rout'[j] = [rresults[pos(j)] EXCEPT
                           !.rerankScore = ScoreGiven(scores, pos(j)),
                           !.score = 100 * ScoreGiven(scores, pos(j))]
          /\ \A i \in DOMAIN rout' : i < j => Outranks(scores, pos(i), pos(j))
          /\ \A p \in DOMAIN rresults :
               (\A i \in DOMAIN rout' : pos(i) # p) => Outranks(scores, pos(j), p)

\* C16 (amended): when an attempt yields a JSON array of {index, score} objects,
\* rerankResults stops retrying and returns the k input results with the
\* highest rerankScore in descending rerankScore order, ties in input order,
\* each carrying rerankScore and score = rerankScore / 10; a candidate whose
\* index is missing from the array gets rerankScore 0.
C16_RerankSuccess ==
  [][\A reply \in LLMScores :
       RerankSuccess(reply) => ReturnsReranked(reply.scores)]_vars

\* C16 as stated: the same of every attempt that yields a parsable JSON array,
\* the array [null] included, which gives no index a score.
C16_AnyJsonArray ==
  [][/\ \A reply \in LLMScores :
          RerankSuccess(reply) => ReturnsReranked(reply.scores)
     /\ RerankFailure([kind |-> "nullEntry"]) => ReturnsReranked(<<>>)]_vars

\* A call of three results and k = 2 that succeeded on its second attempt: the
\* result scored 7 comes first, the first input result, which the array does
\* not mention, comes second with rerankScore 0.
C16_Witness ==
  /\ rpc = "returned" /\ rfailed = 1 /\ rcalls = 2
  /\ Len(rresults) = 3 /\ rtopK = 2 /\ Len(rout) = 2
  /\ rout[1].rerankScore = 7 /\ rout[1].score = 700 /\ rout[1].id # rresults[1].id
  /\ rout[2].rerankScore = 0 /\ rout[2].id = rresults[1].id

\* The chunk results of a result list, in the order of the list
ChunksIn(list) ==
  LET IsChunk(r) == r._type = "chunk"
  IN SelectSeq(list, IsChunk)

\* C15: when results.length > k and each of the 3 attempts fails, rerankResults
\* has made exactly 3 LLM calls and returns, without raising, the first k input
\* results in input order, unchanged; the search that called it returns the
\* first k hybrid results in hybrid order.
C15_RerankFallback ==
  /\ rpc = "returned" /\ rcalls > 0 /\ rfailed = rcalls
     => /\ rcalls = 3
        /\ Len(rout) = rtopK
        /\ \A j \in 1..rtopK : rout[j] = rresults[j]
  /\ rfailed = 3 => rpc \in {"returned", "idle"}
  /\ spc = "returned" /\ shistory.reranked /\ rfailed = rcalls
     => /\ Len(ChunksIn(sresult)) = limitOf(slimit)
        /\ \A j \in 1..limitOf(slimit) : ChunksIn(sresult)[j] = hybridResults[j]

\* A search whose reranker failed three times has returned chunks.
C15_Witness ==
  /\ spc = "returned" /\ shistory.reranked
  /\ rfailed = 3 /\ rcalls = 3
  /\ Len(hybridResults) > limitOf(slimit)
  /\ ChunksIn(sresult) # <<>>

\* ------------------------------------------------------------------------
\* Claims about search
\* ------------------------------------------------------------------------
\* The limit of the search call: the one given, else the default
EffectiveLimit == IF slimit = 0 THEN DefaultLimit ELSE slimit

\* C18: search asks hybrid search for max(limit, RERANK_OVERFETCH) candidates,
\* invokes the reranker exactly when more than limit candidates come back, and
\* returns at most limit chunk results, limit being the default when none is
\* given; the reranker is never invoked when limit >= RERANK_OVERFETCH.
C18_OverfetchAndLimit ==
  /\ [][spc = "embedding" /\ spc' \in {"reranking", "returned"}
        => LET asked == IF EffectiveLimit > RERANK_OVERFETCH
                        THEN EffectiveLimit ELSE RERANK_OVERFETCH
               held == Cardinality(searchEngine[stag])
           IN /\ overfetchLimit' = asked
              /\ Len(hybridResults') = IF held < asked THEN held ELSE asked
              /\ (spc' = "reranking") = (Len(hybridResults') > EffectiveLimit)
              /\ (rcalls' # rcalls \/ rpc' # rpc) => spc' = "reranking"]_vars
  /\ [](spc \in {"reranking", "returned"}
        => /\ shistory.reranked = (Len(hybridResults) > EffectiveLimit)
           /\ EffectiveLimit >= RERANK_OVERFETCH => ~shistory.reranked)
  /\ [](spc = "returned" => Len(ChunksIn(sresult)) <= EffectiveLimit)

\* A search with the default limit found more chunks in the index than it
\* asked for, reranked them and returned as many as the limit.
C18_Witness ==
  /\ spc = "returned" /\ slimit = 0
  /\ Cardinality(searchEngine[stag]) > overfetchLimit
  /\ Len(hybridResults) = overfetchLimit
  /\ shistory.reranked /\ rcalls > 0
  /\ Len(ChunksIn(sresult)) = DefaultLimit

\* The nodes and the edges of a graph, the nodes the query mentions, and what
\* lies within one step of a set of names
EdgesOf(g) ==
  UNION {{g.adjacency[i].v[j] : j \in DOMAIN g.adjacency[i].v} : i \in DOMAIN g.adjacency}
Mentioned(g, query) ==
  {n \in NodeNames(g) :
     \E key \in {toLowerCase(n)}
                \cup {toLowerCase(split(n)[i]) : i \in {j \in DOMAIN split(n) :
                                                          StrLength(split(n)[j]) > 2}} :
       StrLength(key) > 2 /\ wordMatch(key, toLowerCase(query))}
Around(g, S) ==
  S \cup {e.target : e \in {d \in EdgesOf(g) : d.source \in S}}
    \cup {e.source : e \in {d \in EdgesOf(g) : d.target \in S}}

\* The pseudo-results of a list, by their tag
TaggedIn(list, tag) ==
  LET HasTag(r) == r._type = tag
  IN SelectSeq(list, HasTag)

\* C19: when the query mentions entity names of the graph of the tag, the
\* result of search is its chunk results, then one pseudo-result tagged
\* "entity" for each entity within 2 hops of the mentioned ones, then one
\* tagged "relationship" for each relationship met on the way, each with score,
\* vectorScore and bm25Score 0; for the graph of Alice, Bob and Acme with
\* Alice married_to Bob and Alice works_at Acme the query "tell me about Alice"
\* yields the three entities and both relationships.
C19_GraphExpansion ==
  [][spc # "returned" /\ spc' = "returned"
     => LET g == graphs[stag]
            chunks == ChunksIn(sresult')
            entities == TaggedIn(sresult', "entity")
            rels == TaggedIn(sresult', "relationship")
            seeds == Mentioned(g, squery)
            near == Around(g, seeds)
            reach == Around(g, near) \cap NodeNames(g)
            met == {e \in EdgesOf(g) : e.source \in near \/ e.target \in near}
            Least(a, b) == IF a < b THEN a ELSE b
        IN /\ sresult' = chunks \o entities \o rels
           /\ \A i \in DOMAIN entities :
                /\ entities[i].name \in reach
                /\ entities[i].content = MapGet(g.nodes, entities[i].name).summary
                /\ entities[i].score = 0 /\ entities[i].vectorScore = 0
                /\ entities[i].bm25Score = 0
                /\ \A j \in DOMAIN entities : entities[j].name = entities[i].name => i = j
           /\ Len(entities) = Least(Cardinality(reach), MAX_GRAPH_ENTITIES)
           /\ \A i \in DOMAIN rels :
                /\ \E e \in met : /\ e.source = rels[i].source
                                  /\ e.relation = rels[i].relation
                                  /\ e.target = rels[i].target
                /\ rels[i].score = 0 /\ rels[i].vectorScore = 0 /\ rels[i].bm25Score = 0
                /\ \A j \in DOMAIN rels :
                     edgeKey(rels[j]) = edgeKey(rels[i]) => i = j
           /\ Len(rels) = Least(Cardinality({edgeKey(e) : e \in met}),
                                MAX_GRAPH_RELATIONSHIPS)
           /\ (/\ squery = <<"tell", Blank, "me", Blank, "about", Blank, "Alice">>
               /\ NodeNames(g) = {<<"Alice">>, <<"Bob">>, <<"Acme">>}
               /\ {<<e.source, e.relation, e.target>> : e \in EdgesOf(g)}
                    = {<<<<"Alice">>, <<"married_to">>, <<"Bob">>>>,
                       <<<<"Alice">>, <<"works_at">>, <<"Acme">>>>})
              => /\ {entities[i].name : i \in DOMAIN entities}
                      = {<<"Alice">>, <<"Bob">>, <<"Acme">>}
                 /\ {<<rels[i].source, rels[i].relation, rels[i].target>> :
                       i \in DOMAIN rels}
                      = {<<<<"Alice">>, <<"married_to">>, <<"Bob">>>>,
                         <<<<"Alice">>, <<"works_at">>, <<"Acme">>>>}]_vars

\* The search for "tell me about Alice" returned chunks, then Alice, Bob and
\* Acme, then the two relationships.
C19_Witness ==
  /\ spc = "returned"
  /\ squery = <<"tell", Blank, "me", Blank, "about", Blank, "Alice">>
  /\ Len(ChunksIn(sresult)) > 0
  /\ Len(TaggedIn(sresult, "entity")) = 3
  /\ Len(TaggedIn(sresult, "relationship")) = 2
  /\ sresult[Len(sresult)]._type = "relationship"
  /\ sresult[1]._type = "chunk"

\* The chunks call c made that are in an index or in a snapshot
StoredBy(c) ==
  {x \in UNION {searchEngine[t] \cup snapshot[t].chunks : t \in Tags} : x.by = c}

\* C17: an embedding batch of ingest and the query embedding of search are
\* attempted at most 3 times; a failed first or second attempt sends the same
\* batch again; the third failure rejects the call, and an ingest so rejected
\* has added no chunk to the index and written no snapshot.
C17_EmbeddingRetry ==
  /\ [](\A c \in Calls : eattempt[c] <= 2)
  /\ [](sattempt <= 2)
  /\ [][\A c \in Calls :
          /\ cpc[c] = "embedding" /\ cpc'[c] = "failed"
             => eattempt[c] = 2 /\ UNCHANGED <<searchEngine, snapshot>>
          /\ cpc[c] = "embedding" /\ eattempt'[c] # eattempt[c] /\ eattempt[c] < 2
             /\ embedded'[c] = embedded[c] /\ cpc'[c] # "done"
             => /\ eattempt'[c] = eattempt[c] + 1
                /\ cpc'[c] = "embedding"
                /\ UNCHANGED <<searchEngine, snapshot>>]_vars
  /\ [][spc = "embedding" /\ spc' = "threw" => sattempt = 2 /\ sresult' = NoResult]_vars
  /\ [][spc = "embedding" /\ sattempt' # sattempt /\ sattempt < 2 /\ spc' # "returned"
        /\ spc' # "reranking"
        => sattempt' = sattempt + 1 /\ spc' = "embedding"]_vars
  /\ [](\A c \in Calls : cpc[c] = "failed" => StoredBy(c) = {})

\* Call A was rejected by the third failure of an embedding batch, after its
\* entities went into the graph: the index of its tag is empty and no snapshot
\* was written; a search was rejected by the third failure of its embedding.
C17_Witness ==
  /\ cpc["A"] = "failed" /\ eattempt["A"] = 2
  /\ searchEngine[ctag["A"]] = {} /\ ~snapshot[ctag["A"]].saved
  /\ nodeCount(graphs[ctag["A"]]) > 0
  /\ spc = "threw" /\ sattempt = 2

\* ------------------------------------------------------------------------
\* Claims about ingest, search and clear on one tag
\* ------------------------------------------------------------------------
\* Call c is between its graph mutation (part_002:249-260) and its index
\* mutation (part_002:329-330).
Mutating(c) == cpc[c] = "embedding"

\* The index, graph and snapshot of a tag after call c1 and then call c2 ran
\* on the empty tag, each from start to end, with the extractions they got
SerialState(c1, c2) ==
  LET chunksOf(c) == embeddedChunks(c, Len(allChunks(c)))
      g1 == buildGraph(EmptyGraph, csessions[c1], extractions[c1], 1)
      idx1 == addChunks({}, chunksOf(c1))
      snap1 == saveToCache(NoSnapshot, idx1, g1)
      g2 == buildGraph(g1, csessions[c2], extractions[c2], 1)
      idx2 == addChunks(idx1, chunksOf(c2))
  IN [index |-> {[id |-> x.id, content |-> x.content] : x \in idx2},
      graph |-> g2,
      snapshot |-> saveToCache(snap1, idx2, g2)]

\* The state of a tag, without the mark of the call that made each chunk
StateOf(t) ==
  LET Unmarked(idx) == {[id |-> x.id, content |-> x.content] : x \in idx}
  IN [index |-> Unmarked(searchEngine[t]),
      graph |-> graphs[t],
      snapshot |-> snapshot[t]]

\* The second half of C11: when two calls on one tag have both returned, the
\* state of the tag is the one a serial run of the two leaves.
C11_SerialResult ==
  \A c, d \in Calls :
    c # d /\ cpc[c] = "done" /\ cpc[d] = "done" /\ ctag[c] = ctag[d]
    /\ csessions[c] # <<>> /\ csessions[d] # <<>>
    => \/ StateOf(ctag[c]) = [SerialState(c, d) EXCEPT
                                !.snapshot.chunks = searchEngine[ctag[c]]]
       \/ StateOf(ctag[c]) = [SerialState(d, c) EXCEPT
                                !.snapshot.chunks = searchEngine[ctag[c]]]

\* C11: two ingest calls on the same tag serialize: no call mutates the graph
\* or the index of the tag between the graph mutation and the index mutation
\* of the other, and the state they leave is that of a serial run.
C11_IngestSerialize ==
  /\ \A c, d \in Calls : c # d /\ ctag[c] = ctag[d] => ~(Mutating(c) /\ Mutating(d))
  /\ C11_SerialResult

\* C12: a search never observes a clear of its tag in progress: when clear ran
\* while the search was under way, the chunk results and the pseudo-results of
\* the search are all of the state before the clear or all of the state after.
\* The chunks the search hands to the reranker are read before the clear, so
\* the pseudo-results must be those of the graph read with them.
C12_SearchNeverSeesClear ==
  spc = "returned" /\ shistory.clearedMid
  => sresult = combinedResults(ChunksIn(sresult), shistory.graphAtRead, squery)

\* C13: after clear(tag) has completed and before any further ingest on the
\* tag, every search on the tag returns an empty list.
C13_ClearIsDestructive ==
  spc = "returned" /\ shistory.clean => sresult = <<>>

\* What a search on tag t can retrieve: the content of the index and the graph
\* of the tag, after the lazy load of the snapshot when it is due
Retrievable(t) ==
  LET lazy == ~hasData(searchEngine[t]) /\ snapshot[t].saved
  IN [chunks |-> {x.id : x \in IF lazy THEN snapshot[t].chunks ELSE searchEngine[t]},
      names |-> NodeNames(IF lazy /\ snapshot[t].graphSaved
                          THEN load(snapshot[t].graph) ELSE graphs[t])]

\* C14: data is destroyed only by clear: every chunk and entity that an ingest
\* which returned put under a tag since the last clear of the tag stays
\* retrievable, through all later
\* ingests, searches, snapshot writes and lazy loads, also when an ingest runs
\* while the memory is empty and a snapshot is on disk.
C14_OnlyClearDestroys ==
  \A t \in Tags :
    /\ ingested[t].chunks \subseteq Retrievable(t).chunks
    /\ ingested[t].names \subseteq Retrievable(t).names

\* ------------------------------------------------------------------------
\* Claims about chunkText
\* ------------------------------------------------------------------------
\* C24: for every input text, every chunk returned by chunkText has length at
\* most chunkSize (CHUNK_SIZE), also a chunk produced by a hard cut at the
\* window end.
C24_ChunkSizeBound ==
  chunked.called /\ chunked.returns
  => \A i \in DOMAIN chunked.chunks : StrLength(chunked.chunks[i].str) <= CHUNK_SIZE

\* C25: for every input text, the empty string and whitespace-only texts no
\* longer than chunkSize included, every element of chunkText's result is a
\* non-empty trimmed string.
C25_NoEmptyChunk ==
  chunked.called /\ chunked.returns
  => \A i \in DOMAIN chunked.chunks :
       /\ chunked.chunks[i].str # <<>>
       /\ trim(chunked.chunks[i].str) = chunked.chunks[i].str

\* C26 as stated: for every input text on which chunkText returns, every
\* non-whitespace character position of the text lies inside at least one
\* emitted chunk, and each chunk starts no later than the end of the previous
\* one plus one.
C26_ChunkCoverage ==
  chunked.called /\ chunked.returns
  => /\ \A p \in 0..(Len(chunked.text) - 1) :
          chunked.text[p + 1] \notin {Blank, Newline}
          => \E i \in DOMAIN chunked.chunks :
               chunked.chunks[i].from <= p /\ p <= chunked.chunks[i].to
     /\ \A i \in DOMAIN chunked.chunks :
          i > 1 => chunked.chunks[i].from <= chunked.chunks[i - 1].to + 1

\* C26 amended: for every input text on which chunkText returns, every
\* non-whitespace character position of the text lies inside at least one
\* emitted chunk, each chunk is the text between its first and last position,
\* and between the end of an emitted chunk and the start of the next lies
\* nothing but whitespace.
C26_ChunkCoverageAmended ==
  chunked.called /\ chunked.returns
  => /\ \A p \in 0..(Len(chunked.text) - 1) :
          chunked.text[p + 1] \notin {Blank, Newline}
          => \E i \in DOMAIN chunked.chunks :
               chunked.chunks[i].from <= p /\ p <= chunked.chunks[i].to
     /\ \A i \in DOMAIN chunked.chunks :
          chunked.chunks[i].str
            = SubSeq(chunked.text, chunked.chunks[i].from + 1, chunked.chunks[i].to + 1)
     /\ \A i \in DOMAIN chunked.chunks :
          i > 1 => \A p \in (chunked.chunks[i - 1].to + 1)..(chunked.chunks[i].from - 1) :
                     chunked.text[p + 1] \in {Blank, Newline}

\* Reached: a text cut at a break point into three chunks, the second starting
\* after whitespace that follows the first, the third inside the second
C26_Witness ==
  /\ chunked.called /\ chunked.returns
  /\ Len(chunked.chunks) = 3
  /\ chunked.chunks[2].from > chunked.chunks[1].to + 1
  /\ chunked.chunks[3].from <= chunked.chunks[2].to

\* ------------------------------------------------------------------------
\* Claims about PgStore
\* ------------------------------------------------------------------------
\* C27: every result of PgStore.search has 0 <= vectorScore <= 1,
\* 0 <= bm25Score <= 1 and score = 0.7 * vectorScore + 0.3 * bm25Score, where
\* bm25Score is the raw lexical score divided by the largest raw lexical score
\* among the returned candidates (0 for all when that maximum is 0); the
\* results are sorted by descending score and number at most limit.  Scores
\* are in thousandths.
C27_ScoreContract ==
  pgout.op = "search"
  => LET list == pgout.result
         raw(i) == ts_rank(list[i].content, pgout.query)
         IsMax(m) == /\ \E i \in DOMAIN list : raw(i) = m
                     /\ \A i \in DOMAIN list : raw(i) <= m
     IN /\ Len(list) <= pgout.limit
        /\ \A i \in DOMAIN list :
             /\ 0 <= list[i].vectorScore /\ list[i].vectorScore <= 1000
             /\ 0 <= list[i].bm25Score /\ list[i].bm25Score <= 1000
             /\ 10 * list[i].score = 7 * list[i].vectorScore + 3 * list[i].bm25Score
             /\ \A m \in 0..Len(list[i].content) :
                  IsMax(m) => IF m = 0 THEN list[i].bm25Score = 0
                              ELSE m * list[i].bm25Score = 1000 * raw(i)
        /\ \A i \in DOMAIN list : i > 1 => list[i - 1].score >= list[i].score

\* C28: self-retrieval.  After addChunks(C, [c]) a search on C whose query
\* embedding is c.embedding returns c as its first result, whatever else the
\* container holds, whatever the query text and whatever limit >= 1.
C28_SelfRetrieval ==
  (pgout.op = "addChunks" /\ Len(pgout.chunks) = 1)
  => LET c == pgout.chunks[1]
     IN \A query \in PgQueryInputs, limit \in LimitInputs, ord \in RowOrders :
          LET list == PgStore_search(pg, pgout.containerTag, c.embedding, query, limit, ord)
          IN /\ Len(list) >= 1
             /\ list[1].content = c.content
             /\ list[1].sessionId = c.sessionId
             /\ list[1].chunkIndex = c.chunkIndex

\* C29: addChunks is an idempotent upsert by id.  Calling it a second time
\* with the same input leaves the stored chunks and every search output as
\* they are after the first call, and a chunk added under an id that is
\* already stored replaces the content and the embedding of that row and
\* changes no chunk count.
C29_IdempotentUpsert ==
  [][(pgout'.op = "addChunks" /\ PgAddChunks(pgout'.containerTag, pgout'.chunks))
       => LET containerTag == pgout'.containerTag
              chunks == pgout'.chunks
              again == PgStore_addChunks(pg', containerTag, chunks)
              ids == {r.id : r \in pg.rag_chunks}
              last(id) == chunks[CHOOSE i \in DOMAIN chunks :
                                   /\ chunks[i].id = id
                                   /\ \A j \in DOMAIN chunks : chunks[j].id = id => j <= i]
          IN /\ again = pg'
             /\ \A t \in {1, 2}, queryEmbedding \in EmbeddingInputs,
                   query \in PgQueryInputs, limit \in LimitInputs, ord \in RowOrders :
                  PgStore_search(again, t, queryEmbedding, query, limit, ord)
                    = PgStore_search(pg', t, queryEmbedding, query, limit, ord)
             /\ \A i \in DOMAIN chunks :
                  \E r \in pg'.rag_chunks :
                    /\ r.id = chunks[i].id
                    /\ r.content = last(r.id).content
                    /\ r.embedding = last(r.id).embedding
                    /\ \A q \in pg'.rag_chunks : q.id = r.id => q = r
             /\ (\A i \in DOMAIN chunks : chunks[i].id \in ids)
                  => \A t \in {1, 2} :
                       PgStore_getChunkCount(pg', t) = PgStore_getChunkCount(pg, t)]_vars
\* An addChunks call has replaced the content and the embedding of a stored
\* chunk and has left one row under that id
C29_Witness ==
  /\ pgout.op = "addChunks"
  /\ pgCalls >= 2
  /\ \E i \in DOMAIN pgout.chunks :
       /\ pgout.chunks[i].content = <<"hello">>
       /\ pgout.chunks[i].embedding = <<-10, 0>>
       /\ \E r \in pg.rag_chunks :
            /\ r.id = pgout.chunks[i].id
            /\ r.container_tag = pgout.containerTag
            /\ r.content = <<"hello">>
            /\ r.embedding = <<-10, 0>>
  /\ PgStore_getChunkCount(pg, pgout.containerTag) = 2

\* C30: container isolation.  addChunks, addEntity, addRelationship and clear
\* on a container A change nothing of what search, hasData, getChunkCount,
\* getNodeCount, getEdgeCount and getContext return for another container B,
\* for every input, a chunk whose id is already stored in B included.
C30_ContainerIsolation ==
  [][(pgout'.op \in {"addChunks", "addEntity", "addRelationship", "clear"})
       => \A B \in {1, 2} \ {pgout'.containerTag} :
            /\ \A queryEmbedding \in EmbeddingInputs, query \in PgQueryInputs,
                  limit \in LimitInputs, ord \in RowOrders :
                 PgStore_search(pg', B, queryEmbedding, query, limit, ord)
                   = PgStore_search(pg, B, queryEmbedding, query, limit, ord)
            /\ PgStore_hasData(pg', B) = PgStore_hasData(pg, B)
            /\ PgStore_getChunkCount(pg', B) = PgStore_getChunkCount(pg, B)
            /\ PgStore_getNodeCount(pg', B) = PgStore_getNodeCount(pg, B)
            /\ PgStore_getEdgeCount(pg', B) = PgStore_getEdgeCount(pg, B)
            /\ \A entityNames \in SeedInputs, maxHops \in HopInputs, ord \in RowOrders :
                 PgStore_getContext(pg', B, entityNames, maxHops, ord)
                   = PgStore_getContext(pg, B, entityNames, maxHops, ord)]_vars

\* ------------------------------------------------------------------------
\* Claims about the two graph backends
\* ------------------------------------------------------------------------
\* C31: for the same entities, relationships, seed names and maxHops, and a
\* reachable subgraph within the caps, PgStore.getContext and
\* EntityGraph.getContext return the same set of entities and the same set of
\* relationships, also when a seed or an edge endpoint is a name that was
\* never registered as an entity.  The PgStore holds what the same addEntity
\* and addRelationship calls store in it.
C31_BackendEquivalence ==
  (gcontext.called /\ gcontext.store = "EntityGraph")
  => LET data == save(entityGraph)
         RECURSIVE withNodes(_, _)
         withNodes(db, i) ==
           IF i > Len(data.nodes) THEN db
           ELSE withNodes(PgStore_addEntity(db, 1, data.nodes[i].name, data.nodes[i].type,
                                            data.nodes[i].summary,
                                            data.nodes[i].sessionIds[1]), i + 1)
         RECURSIVE withEdges(_, _)
         withEdges(db, i) ==
           IF i > Len(data.edges) THEN db
           ELSE withEdges(PgStore_addRelationship(db, 1, data.edges[i]), i + 1)
         db == withEdges(withNodes(EmptyDatabase, 1), 1)
         Below(r) == /\ Len(r.entities) < MAX_GRAPH_ENTITIES
                     /\ Len(r.relationships) < MAX_GRAPH_RELATIONSHIPS
         memory == gcontext.result
     IN \A ord \in RowOrders :
          LET stored == PgStore_getContext(db, 1, gcontext.entityNames,
                                           gcontext.maxHops, ord)
          IN (Below(memory) /\ Below(stored))
             => /\ SeqToSet(stored.entities) = SeqToSet(memory.entities)
                /\ SeqToSet(stored.relationships) = SeqToSet(memory.relationships)

\* ------------------------------------------------------------------------
\* Claims about failures of ingest
\* ------------------------------------------------------------------------
\* C32: a snapshot write failure at the end of ingest is logged rather than
\* raised: the call still returns its documentIds, and the in-memory index and
\* graph keep the data added by that ingest.
C32_SnapshotFailureLogged ==
  [][\A c \in Calls, file \in {"search.json", "graph.json"} :
       SaveToCacheFailure(c, file)
       => LET chunks == embeddedChunks(c, Len(allChunks(c)))
          IN /\ cpc'[c] = "done"
             /\ documentIds'[c] = [j \in DOMAIN chunks |-> chunks[j].id]
             /\ \A j \in DOMAIN chunks : chunks[j] \in searchEngine'[ctag[c]]
             /\ graphs'[ctag[c]] = graphs[ctag[c]]]_vars

\* C33: an ingest call that fails leaves the entity graph of its tag as it
\* was: when the call is rejected and no other ingest is under way on the tag,
\* the graph holds no entity but those of the ingests that returned, and a
\* search that returns while no ingest is under way on its tag gives no entity
\* pseudo-result of another name.
C33_FailedIngestLeavesGraph ==
  /\ [][\A c \in Calls :
          (/\ cpc[c] = "embedding" /\ cpc'[c] = "failed"
           /\ \A d \in Calls \ {c} : ~(Active(d) /\ ctag[d] = ctag[c]))
          => NodeNames(graphs'[ctag[c]]) \subseteq ingested[ctag[c]].names]_vars
  /\ [][(/\ spc # "returned" /\ spc' = "returned"
         /\ \A d \in Calls : ~(Active(d) /\ ctag[d] = stag))
        => LET entities == TaggedIn(sresult', "entity")
           IN \A i \in DOMAIN entities : entities[i].name \in ingested[stag].names]_vars

\* C34: chunkText terminates on every input text: each iteration of its loop
\* moves start forward, also when the only break point in the window is a
\* space close to start, so that breakPoint + 1 - overlap is not greater than
\* the start of the iteration.
C34_ChunkTextTerminates == chunked.called => chunked.returns

\* ------------------------------------------------------------------------
\* Claims about the extraction cache
\* ------------------------------------------------------------------------
\* C35: over any sequence of ingest and clear calls on one provider, a session
\* whose extraction has succeeded once is never sent to the extraction LLM
\* again; later ingests under any tag use the cached string, and clear does
\* not evict it.
C35_ExtractionOnce ==
  /\ [][\A s \in Sessions :
          (extractionCache[s] # NoText \/ xpc[s] \in {"returned", "resolved"})
          => /\ nStarted'[s] = nStarted[s]
             /\ xpc'[s] = "calling" => xpc[s] = "calling"]_vars
  /\ [][\A s \in Sessions :
          extractionCache[s] # NoText => extractionCache'[s] = extractionCache[s]]_vars
  /\ [](\A c \in Calls :
          cpc[c] = "embedding"
          => \A i \in DOMAIN csessions[c] :
               extractions[c][i] = extractionCache[csessions[c][i]])
\* Reached: call A has ingested session 1 under tag 1, the tag was cleared,
\* and call B, started after A had returned, has ingested sessions 1 and 2
\* under tag 2 with the one extraction of session 1 that A started
C35_Witness ==
  /\ cpc["A"] = "done" /\ ctag["A"] = 1 /\ csessions["A"] = <<1>>
  /\ cpc["B"] = "done" /\ ctag["B"] = 2 /\ csessions["B"] = <<1, 2>>
  /\ {"A", "B"} \notin overlapped
  /\ cleared[1]
  /\ nStarted[1] = 1 /\ nStarted[2] = 1
  /\ documentIds["B"] # <<>>

\* C36: extractMemories makes at most 5 LLM attempts for a session while
\* holding one pool slot; when all 5 fail, the error reaches every ingest call
\* that shares the extraction, the session is left neither in the cache nor in
\* the in-flight map, and a later ingest of the session starts a fresh
\* extraction.
C36_TerminalExtractionFailure ==
  /\ [](\A s \in Sessions : xattempt[s] \in 0..(maxRetries - 1))
  /\ [][\A s \in Sessions :
          /\ (xpc[s] = "calling" /\ xpc'[s] = "threw") => xattempt[s] = maxRetries - 1
          /\ (xpc[s] = "calling" /\ xpc'[s] = "backoff")
               => /\ xattempt[s] < maxRetries - 1
                  /\ xattempt'[s] = xattempt[s]
                  /\ activeGlobalExtractions' = activeGlobalExtractions
          /\ (xpc[s] = "backoff" /\ xpc'[s] # "backoff")
               => /\ xpc'[s] = "calling"
                  /\ xattempt'[s] = xattempt[s] + 1
                  /\ activeGlobalExtractions' = activeGlobalExtractions]_vars
  /\ [][\A s \in Sessions :
          (xpc[s] = "rejected" /\ xpc'[s] # "rejected")
          => /\ \A c \in Calls : Waits(c, s) => cpc'[c] = "failed"
             /\ extractionCache'[s] = NoText
             /\ ~extractionInFlight'[s]
             /\ (extractSession(IngestNow, s))'.started[s] = nStarted[s] + 1
             /\ (extractSession(IngestNow, s))'.inFlight[s]]_vars
\* Reached: the one extraction of session 1 failed 5 times and rejected the
\* calls A and B that shared it
C36_Witness ==
  /\ cpc["A"] = "failed" /\ cpc["B"] = "failed"
  /\ {"A", "B"} \in overlapped
  /\ nStarted[1] = 1 /\ nFailed[1] = 1
  /\ extractionCache[1] = NoText /\ ~extractionInFlight[1]

\* ------------------------------------------------------------------------
\* C37: the seeds of getContext are hop 0.  Every entity returned is a seed
\* or lies within maxHops edges, taken in either direction, of a seed; every
\* relationship returned has an endpoint within maxHops - 1 edges of a seed;
\* with maxHops = 0 only registered seeds and no relationship are returned;
\* and when the reachable part is within the caps, all these entities and
\* relationships are returned.
C37_HopBound ==
  (gcontext.called /\ gcontext.store = "EntityGraph")
  => LET g == entityGraph
         seeds == SeqToSet(gcontext.entityNames)
         RECURSIVE Within(_)
         Within(k) == IF k <= 0 THEN seeds ELSE Around(g, Within(k - 1))
         hops == gcontext.maxHops
         reach == Within(hops) \cap NodeNames(g)
         met == IF hops <= 0 THEN {}
                ELSE {tripleOf(e) : e \in {d \in EdgesOf(g) :
                                              \/ d.source \in Within(hops - 1)
                                              \/ d.target \in Within(hops - 1)}}
         entities == {gcontext.result.entities[i].name :
                        i \in DOMAIN gcontext.result.entities}
         relationships == {tripleOf(gcontext.result.relationships[i]) :
                             i \in DOMAIN gcontext.result.relationships}
     IN /\ entities \subseteq reach
        /\ relationships \subseteq met
        /\ hops = 0 => entities \subseteq seeds /\ relationships = {}
        /\ Cardinality(reach) <= MAX_GRAPH_ENTITIES => entities = reach
        /\ Cardinality(met) <= MAX_GRAPH_RELATIONSHIPS => relationships = met
\* Reached: a traversal of one hop that returns a seed, a neighbour and the
\* edge between them, found from its target, and leaves out an entity two
\* edges away
C37_Witness ==
  /\ gcontext.called /\ gcontext.store = "EntityGraph"
  /\ gcontext.maxHops = 1
  /\ gcontext.entityNames = <<<<"Alice">>>>
  /\ \E i \in DOMAIN gcontext.result.entities : gcontext.result.entities[i].name = <<"Acme">>
  /\ \E i \in DOMAIN gcontext.result.relationships :
       gcontext.result.relationships[i].target = <<"Alice">>
  /\ \E n \in NodeNames(entityGraph) :
       /\ n \in Around(entityGraph, Around(entityGraph, {<<"Alice">>}))
       /\ n \notin Around(entityGraph, {<<"Alice">>})

\* C38: PgStore.addEntity merges into an existing name as EntityGraph.addEntity
\* does: the session joins a set, with no session id twice, the new summary is
\* appended only when its 40-character prefix (SummaryPrefix here) is not yet
\* part of the stored summary, and the result is cut at 500 characters
\* (SummaryMax here); so adding the same entity twice is as adding it once.
C38_AddEntityEquivalence ==
  [][(pgout'.op = "addEntity"
        /\ \E r \in pg.rag_entities :
             r.container_tag = pgout'.containerTag /\ r.name = trim(pgout'.entity.name))
     => LET Row(db) == CHOOSE r \in db.rag_entities :
                         /\ r.container_tag = pgout'.containerTag
                         /\ r.name = trim(pgout'.entity.name)
            old == Row(pg)
            new == Row(pg')
            g == load([nodes |-> <<[name |-> old.name, type |-> old.type,
                                    summary |-> old.summary,
                                    sessionIds |-> old.session_ids]>>,
                       edges |-> <<>>])
            node == MapGet(addEntity(g, pgout'.entity.name, pgout'.entity.type,
                                     pgout'.entity.summary, pgout'.entity.sessionId).nodes,
                           old.name)
        IN /\ new.summary = node.summary
           /\ SeqToSet(new.session_ids) = SeqToSet(node.sessionIds)
           /\ \A i, j \in DOMAIN new.session_ids :
                new.session_ids[i] = new.session_ids[j] => i = j
           /\ PgStore_addEntity(pg', pgout'.containerTag, pgout'.entity.name,
                                pgout'.entity.type, pgout'.entity.summary,
                                pgout'.entity.sessionId) = pg']_vars

\* ------------------------------------------------------------------------
\* C39: whatever the LLM answers, rerankResults called with more than k
\* results returns exactly k results, each a distinct element of its input
\* with no field changed but score and rerankScore; called with k results or
\* fewer it returns its input unchanged and makes no LLM call.
C39_RerankDrawnFromInput ==
  [][(rpc # "returned" /\ rpc' = "returned")
     => IF Len(rresults') <= rtopK'
        THEN rout' = rresults' /\ rcalls' = 0
        ELSE /\ Len(rout') = rtopK'
             /\ \A i \in DOMAIN rout' :
                  \E j \in DOMAIN rresults' :
                    [rout'[i] EXCEPT !.score = 0, !.rerankScore = 0]
                      = [rresults'[j] EXCEPT !.score = 0, !.rerankScore = 0]
             /\ \A i, j \in DOMAIN rout' : rout'[i].id = rout'[j].id => i = j]_vars
\* Reached: a call with three results and k = 1 whose first attempt returned
\* the last input result alone
C39_Witness ==
  /\ rpc = "returned"
  /\ Len(rresults) = 3 /\ rtopK = 1
  /\ rcalls = 1
  /\ Len(rout) = 1 /\ rout[1].id = rresults[3].id

\* ------------------------------------------------------------------------
\* C40: when clear(tag) ran while an ingest on the tag was suspended at an
\* await, then once the ingest has returned and no call is in progress the
\* chunks of the ingest are in the index exactly when its entities and
\* relationships are in the graph search consults and in the snapshot.
C40_ClearRaceConsistent ==
  [][\A c \in Calls :
       (/\ cpc[c] = "embedding" /\ cpc'[c] = "done"
        /\ cdetached'[c]
        /\ \A d \in Calls : ~Active(d)')
       => LET t == ctag[c]
              own == buildGraph(EmptyGraph, csessions[c], extractions[c], 1)
              saved == snapshot'[t].graph
              searchable ==
                \A j \in DOMAIN documentIds'[c] :
                  documentIds'[c][j] \in {x.id : x \in searchEngine'[t]}
              inGraph ==
                /\ NodeNames(own) \subseteq NodeNames(graphs'[t])
                /\ {tripleOf(e) : e \in EdgesOf(own)}
                     \subseteq {tripleOf(e) : e \in EdgesOf(graphs'[t])}
              inSnapshot ==
                /\ NodeNames(own) \subseteq {saved.nodes[i].name : i \in DOMAIN saved.nodes}
                /\ {tripleOf(e) : e \in EdgesOf(own)}
                     \subseteq {tripleOf(saved.edges[i]) : i \in DOMAIN saved.edges}
          IN searchable <=> (inGraph /\ inSnapshot)]_vars

====
